---- MODULE Spec2Model ----
(***************************************************************************)
(* Model of the Device-Type-Library import scripts:                        *)
(*   - module_type_tracker.py / device_type_tracker.py : the progress      *)
(*     ledger (load, scan, mark_as_*, save),                               *)
(*   - netbox_module.py : main and process_file for module types,          *)
(*   - netbox_rack.py   : main and process_file for rack types, and the    *)
(*     marker-tag helpers.                                                 *)
(* Names are text as sequences of one-character strings, so that slugify   *)
(* is computed and not assumed.                                            *)
(***************************************************************************)
EXTENDS Integers, Sequences, FiniteSets, TLC

\* ------------------------------------------------------------------ bounds
\* number of invocations of a script that one behaviour holds
MaxRuns == 2
\* number of changes of the file tree between invocations
MaxFsChanges == 1
\* number of calls that run into a fault (a raising remote call, an unreadable file,
\* a failing write of the ledger file)
MaxFaults == 1

\* ------------------------------------------------------------- text, slugs
\* Python's None for a text field, and for an id (ids of the remote system start at 1)
None == <<"None">>
NoId == 0
NoMsg == "None"

UpperCase == <<"A", "B", "C", "D", "E", "F", "G", "H", "I", "J", "K", "L", "M",
               "N", "O", "P", "Q", "R", "S", "T", "U", "V", "W", "X", "Y", "Z">>
LowerCase == <<"a", "b", "c", "d", "e", "f", "g", "h", "i", "j", "k", "l", "m",
               "n", "o", "p", "q", "r", "s", "t", "u", "v", "w", "x", "y", "z">>
Digits == {"0", "1", "2", "3", "4", "5", "6", "7", "8", "9"}

\* the class [a-z0-9] of the regular expression in slugify
IsLowerAlnum(c) == c \in Digits \/ \E i \in DOMAIN LowerCase : LowerCase[i] = c

\* Characters outside ASCII are written as two-character tokens: the letters E and e
\* with an acute accent, and the Kelvin sign (U+212A), whose lower case is the ASCII k
EAcuteUpper == "E'"
EAcute == "e'"
KelvinSign == "K'"

\* the characters str.strip() takes off
Whitespace == {" ", "\t", "\n"}

\* str.lower() on one character
lower_char(c) ==
    IF \E i \in DOMAIN UpperCase : UpperCase[i] = c
    THEN LowerCase[CHOOSE i \in DOMAIN UpperCase : UpperCase[i] = c]
    ELSE IF c = EAcuteUpper THEN EAcute
    ELSE IF c = KelvinSign THEN "k"
    ELSE c

RECURSIVE lower(_)
lower(s) == IF s = <<>> THEN <<>> ELSE <<lower_char(Head(s))>> \o lower(Tail(s))

\* a strip that takes nothing off
untrimmed(s, cs) == s

\* a replace that leaves the ampersand
ampersand_kept(s) == s

\* str.strip(): whitespace off both ends; strip_chars(s, {"-"}) is str.strip("-")
RECURSIVE lstrip_chars(_, _)
lstrip_chars(s, cs) == IF s # <<>> /\ Head(s) \in cs THEN lstrip_chars(Tail(s), cs) ELSE s

RECURSIVE rstrip_chars(_, _)
rstrip_chars(s, cs) ==
    IF s # <<>> /\ s[Len(s)] \in cs THEN rstrip_chars(SubSeq(s, 1, Len(s) - 1), cs) ELSE s

strip_chars(s, cs) == rstrip_chars(lstrip_chars(s, cs), cs)

\* s.replace("&", "and")
RECURSIVE replace_amp(_)
replace_amp(s) ==
    IF s = <<>> THEN <<>>
    ELSE (IF Head(s) = "&" THEN <<"a", "n", "d">> ELSE <<Head(s)>>) \o replace_amp(Tail(s))

\* re.sub(r"[^a-z0-9]+", "-", s): every maximal run of other characters becomes one hyphen
RECURSIVE sub_non_alnum(_, _)
sub_non_alnum(s, inRun) ==
    IF s = <<>> THEN <<>>
    ELSE IF IsLowerAlnum(Head(s)) THEN <<Head(s)>> \o sub_non_alnum(Tail(s), FALSE)
    ELSE (IF inRun THEN <<>> ELSE <<"-">>) \o sub_non_alnum(Tail(s), TRUE)

\* re.sub(r"-{2,}", "-", s)
RECURSIVE sub_hyphens(_, _)
sub_hyphens(s, inRun) ==
    IF s = <<>> THEN <<>>
    ELSE IF Head(s) # "-" THEN <<Head(s)>> \o sub_hyphens(Tail(s), FALSE)
    ELSE (IF inRun THEN <<>> ELSE <<"-">>) \o sub_hyphens(Tail(s), TRUE)

\* netbox_module.slugify; None counts as ""
slugify(name) ==
    LET s0 == IF name = None THEN <<>> ELSE name
        s1 == lower(strip_chars(s0, Whitespace))
        s2 == replace_amp(s1)
        s3 == sub_non_alnum(s2, FALSE)
        s4 == strip_chars(s3, {"-"})
    IN  sub_hyphens(s4, FALSE)

\* netbox_rack.slugify; None counts as ""
rack_slugify(name) ==
    sub_hyphens(
        strip_chars(
            sub_non_alnum(
                replace_amp(lower(strip_chars(IF name = None THEN <<>> ELSE name, Whitespace))),
                FALSE),
            {"-"}),
        FALSE)

\* netbox_manufacturer.slugify: the name is used as it comes (it is always a string)
manufacturer_slugify(name) ==
    sub_hyphens(
        strip_chars(sub_non_alnum(replace_amp(lower(strip_chars(name, Whitespace))), FALSE),
                    {"-"}),
        FALSE)

\* Python truthiness of a text value: None and "" are false
Truthy(v) == v # None /\ v # <<>>


\* ------------------------------------------------- the definition files
\* the relative paths under devicetype-library-master/module-types
P1 == "Ab/m1.yml"
P2 == "AB/m2.yml"
P3 == "AB/m3.yml"
P4 == "G/m4.yml"
Paths == {P1, P2, P3, P4}
\* two definitions with component sections; the runs over them also take m4, whose
\* manufacturer is unknown remotely
P5 == "AB/c1.yml"
P6 == "AB/c2.yml"
\* a file of two definitions, the first of which the remote system will not take
P7 == "AB/c3.yml"
\* a file whose only document is a scalar
P8 == "AB/n1.yml"
CompPaths == {P4, P5, P6, P7, P8}

\* Path(filepath).parent.name
Parent(p) == IF p = P1 THEN <<"A", "b">> ELSE IF p = P4 THEN <<"G">> ELSE <<"A", "B">>

\* a list element that is not a mapping
NotADict == [nondict |-> TRUE]
is_dict(doc) == "nondict" \notin DOMAIN doc

\* what yaml.safe_load returns for each file: a mapping, a list of mappings, or None.
\* P1: one mapping whose manufacturer is found by slug only; "extra" is not allow-listed.
\* P2: a list of two mappings, the first with a manufacturer unknown remotely, the
\*     second without manufacturer key (the parent folder name is used).
\* P3: an empty file.
\* P4: one mapping whose manufacturer (the parent folder name) is unknown remotely.
Doc1 == [manufacturer |-> <<"A", "b">>, model |-> <<"x", "1">>, slug |-> <<"x", "1">>,
         extra |-> <<"g">>]
DocGhost == [manufacturer |-> <<"G">>, model |-> <<"g", "1">>, slug |-> <<"g", "1">>]
Doc2 == [model |-> <<"x", "2">>, slug |-> <<"x", "2">>]
Doc4 == [model |-> <<"g", "2">>, slug |-> <<"g", "2">>]

\* A value of a component item: text, a number or a boolean (see TStr, TInt below)
\* P5: the sections that refer come before the sections referred to.  The front port
\*     F names its rear port by the number 2, the front port E by the text "2"; the
\*     power outlet O names the power port W.
\* P6: a definition with an explicit id.  The front port H names a rear port Z that
\*     exists nowhere, K the rear port R of the document; the power outlets Q and U
\*     name power ports that exist nowhere, Q by the text "Y" and U by the number 9;
\*     the inventory item V names a manufacturer unknown remotely; "colour" is no
\*     field of an interface; the interface N is listed a second time, with a label.
DocC1 ==
    [model |-> <<"c", "1">>, slug |-> <<"c", "1">>,
     sections |-> <<
        [key |-> "front-ports",
         items |-> <<[name |-> [t |-> "str", v |-> <<"F">>], rear_port |-> [t |-> "int", v |-> 2]],
                     [name |-> [t |-> "str", v |-> <<"E">>],
                      rear_port |-> [t |-> "str", v |-> <<"2">>]]>>],
        [key |-> "power-outlets",
         items |-> <<[name |-> [t |-> "str", v |-> <<"O">>],
                      power_port |-> [t |-> "str", v |-> <<"W">>]]>>],
        [key |-> "rear-ports",
         items |-> <<[name |-> [t |-> "str", v |-> <<"2">>]]>>],
        [key |-> "power-ports",
         items |-> <<[name |-> [t |-> "str", v |-> <<"W">>]]>>] >>]
DocC2 ==
    [id |-> 1, model |-> <<"c", "2">>, slug |-> <<"c", "2">>,
     sections |-> <<
        [key |-> "front-ports",
         items |-> <<[name |-> [t |-> "str", v |-> <<"H">>],
                      rear_port |-> [t |-> "str", v |-> <<"Z">>]],
                     [name |-> [t |-> "str", v |-> <<"K">>],
                      rear_port |-> [t |-> "str", v |-> <<"R">>]]>>],
        [key |-> "rear-ports",
         items |-> <<[name |-> [t |-> "str", v |-> <<"R">>]]>>],
        [key |-> "power-outlets",
         items |-> <<[name |-> [t |-> "str", v |-> <<"Q">>],
                      power_port |-> [t |-> "str", v |-> <<"Y">>]],
                     [name |-> [t |-> "str", v |-> <<"U">>],
                      power_port |-> [t |-> "int", v |-> 9]]>>],
        [key |-> "interfaces",
         items |-> <<[name |-> [t |-> "str", v |-> <<"N">>],
                      colour |-> [t |-> "str", v |-> <<"r">>]],
                     [name |-> [t |-> "str", v |-> <<"N">>],
                      label |-> [t |-> "str", v |-> <<"b">>]]>>],
        [key |-> "inventory-items",
         items |-> <<[name |-> [t |-> "str", v |-> <<"V">>],
                      manufacturer |-> [t |-> "str", v |-> <<"G">>]]>>] >>]

\* P7: a list of two mappings; the first has no model, which the remote system
\*     requires of a module type; the second is complete and has one interface,
\*     labelled "No", whose boolean field mgmt_only is written "1".
\* P8: a bare scalar (the text of the file is one word).
DocNoModel == [slug |-> <<"c", "3">>]
DocC3 ==
    [model |-> <<"c", "4">>, slug |-> <<"c", "4">>,
     sections |-> <<
        [key |-> "interfaces",
         items |-> <<[name |-> [t |-> "str", v |-> <<"I">>],
                      label |-> [t |-> "str", v |-> <<"N", "o">>],
                      mgmt_only |-> [t |-> "str", v |-> <<"1">>]]>>] >>]

safe_load(p) ==
    IF p = P1 THEN [raw |-> "dict", docs |-> <<Doc1>>]
    ELSE IF p = P5 THEN [raw |-> "dict", docs |-> <<DocC1>>]
    ELSE IF p = P6 THEN [raw |-> "dict", docs |-> <<DocC2>>]
    ELSE IF p = P7 THEN [raw |-> "list", docs |-> <<DocNoModel, DocC3>>]
    ELSE IF p = P8 THEN [raw |-> "scalar", docs |-> <<NotADict>>]
    ELSE IF p = P2 THEN [raw |-> "list", docs |-> <<DocGhost, Doc2>>]
    ELSE IF p = P4 THEN [raw |-> "dict", docs |-> <<Doc4>>]
    ELSE [raw |-> "none", docs |-> <<>>]

\* dict.get(key, default)
get(d, k, default) == IF k \in DOMAIN d THEN d[k] ELSE default

\* ------------------------------------------------------ the progress ledger
Statuses == {"pending", "created", "failed", "skipped"}

\* The tracking file dk is [state, data]: state "missing" (no file), "ok" (the file
\* holds the ledger data), "unreadable" (open or read raises IOError), "not_json"
\* (text that json.load rejects with JSONDecodeError) or "not_utf8" (bytes that the
\* utf-8 reader rejects with UnicodeDecodeError).
DamagedStates == {"unreadable", "not_json", "not_utf8"}

\* ModuleTypeTracker.load_progress, lines 25-30: the exceptions the except clause
\* (json.JSONDecodeError, IOError) does not name leave the function
load_raises(dk) == dk.state = "not_utf8"

\* ModuleTypeTracker.load_progress: the persisted ledger, or a fresh one when the
\* file is missing or the read ends in a caught exception.  now is the clock.
load_progress(dk, now) ==
    IF dk.state = "ok" THEN dk.data
    ELSE [created_at |-> now, last_updated |-> now, total_files |-> 0,
          processed_count |-> 0, failed_count |-> 0,
          module_types |-> [p \in {} |-> 0]]

\* ModuleTypeTracker.extract_module_info: read from the first document; {} when the
\* file is empty or reading raises (a list element that is no mapping has no .get)
extract_module_info(p) ==
    LET y == safe_load(p)
        data == IF y.docs = <<>> THEN [x \in {} |-> 0] ELSE y.docs[1]
    IN  IF y.raw = "none" \/ ~is_dict(data) THEN [x \in {} |-> 0]
        ELSE [manufacturer |-> IF Truthy(get(data, "manufacturer", None))
                               THEN data["manufacturer"] ELSE Parent(p),
              model |-> get(data, "model", <<>>),
              slug |-> get(data, "slug", <<>>),
              description |-> get(data, "description", <<>>)]

\* the entry scan_module_types writes for a path it has not seen
new_entry(p) ==
    LET module_info == extract_module_info(p)
    IN  [full_path |-> p,
         manufacturer |-> get(module_info, "manufacturer", None),
         model |-> get(module_info, "model", None),
         slug |-> get(module_info, "slug", None),
         status |-> "pending",
         created_at |-> NoId,
         error_message |-> NoMsg,
         netbox_id |-> NoId]

\* a scan that rebuilds every entry: the bug scan_module_types avoids with its
\* "not in" test
scan_items_rebuilding(ld, fs) ==
    [ld EXCEPT !.total_files = Cardinality(fs),
               !.module_types = [p \in (DOMAIN ld.module_types) \cup fs |->
                                    IF p \in fs THEN new_entry(p) ELSE ld.module_types[p]]]

\* ModuleTypeTracker.scan_module_types, the in-memory part for a non-empty glob result
\* fs: total_files is the number of files found, and only unseen paths get an entry
scan_items(ld, fs) ==
    [ld EXCEPT !.total_files = Cardinality(fs),
               !.module_types = [p \in (DOMAIN ld.module_types) \cup fs |->
                                    IF p \in DOMAIN ld.module_types
                                    THEN ld.module_types[p] ELSE new_entry(p)]]

\* a getter that returns every item that did not end as created
not_created(ld) ==
    {p \in DOMAIN ld.module_types : ld.module_types[p].status # "created"}

\* a getter that also returns the failed items
pending_or_failed(ld) ==
    {p \in DOMAIN ld.module_types : ld.module_types[p].status \in {"pending", "failed"}}

\* ModuleTypeTracker.get_pending_module_types (the paths of the pairs it returns)
get_pending_module_types(ld) ==
    {p \in DOMAIN ld.module_types : ld.module_types[p].status = "pending"}

count_status(items, s) == Cardinality({p \in DOMAIN items : items[p].status = s})

\* a save that leaves the file for the end of the run
save_progress_deferred(st, now, ok) ==
    [st EXCEPT !.ld = [st.ld EXCEPT !.last_updated = now]]

\* a save that falls back to what the file holds when the write fails
save_progress_or_reload(st, now, ok) ==
    [st EXCEPT !.ld = IF ok THEN [st.ld EXCEPT !.last_updated = now] ELSE st.dk.data,
               !.dk = IF ok THEN [state |-> "ok", data |-> [st.ld EXCEPT !.last_updated = now]]
                      ELSE st.dk]

\* ModuleTypeTracker.save_progress: last_updated is set in memory, then the file is
\* written; an IOError (ok = FALSE) is only printed.  st is [ld, dk, ...].
save_progress(st, now, ok) ==
    LET ld2 == [st.ld EXCEPT !.last_updated = now]
    IN  [st EXCEPT !.ld = ld2,
                   !.dk = IF ok THEN [state |-> "ok", data |-> ld2] ELSE st.dk]

\* ModuleTypeTracker.mark_as_created
mark_as_created(st, p, netbox_id, now, ok) ==
    IF p \notin DOMAIN st.ld.module_types THEN st
    ELSE LET items == [st.ld.module_types EXCEPT
                          ![p].status = "created",
                          ![p].created_at = now,
                          ![p].netbox_id = IF netbox_id # NoId THEN netbox_id ELSE @]
             ld2 == [st.ld EXCEPT !.module_types = items,
                                  !.processed_count = count_status(items, "created")]
         IN  save_progress([st EXCEPT !.ld = ld2, !.marks = Append(@, "created")], now, ok)

\* ModuleTypeTracker.mark_as_failed
mark_as_failed(st, p, error_message, now, ok) ==
    IF p \notin DOMAIN st.ld.module_types THEN st
    ELSE LET items == [st.ld.module_types EXCEPT
                          ![p].status = "failed",
                          ![p].error_message = error_message]
             ld2 == [st.ld EXCEPT !.module_types = items,
                                  !.failed_count = count_status(items, "failed")]
         IN  save_progress([st EXCEPT !.ld = ld2, !.marks = Append(@, "failed")], now, ok)

\* ModuleTypeTracker.mark_as_skipped
mark_as_skipped(st, p, reason, now, ok) ==
    IF p \notin DOMAIN st.ld.module_types THEN st
    ELSE LET items == [st.ld.module_types EXCEPT
                          ![p].status = "skipped",
                          ![p].error_message = reason]
             ld2 == [st.ld EXCEPT !.module_types = items]
         IN  save_progress([st EXCEPT !.ld = ld2, !.marks = Append(@, "skipped")], now, ok)


\* ------------------------------------------------------ the remote system
\* What one call of process_file can run into: nothing, an unreadable or unparsable
\* file, remote lookups that raise, a rejected create/update of the module type, the
\* tags endpoint raising, a rejected tag attach, a failing write of the ledger file.
Faults == {"none", "read", "lookup", "write", "tags", "attach", "save"}

\* the manufacturers of the remote system; the module script never creates one
Manufacturers == {[id |-> 1, name |-> <<"A", "B">>, slug |-> <<"a", "b">>]}

\* netbox_module.ALLOWED_FIELDS
ALLOWED_FIELDS == {"manufacturer", "model", "slug", "u_height", "part_number",
                   "exclude_from_utilization", "is_full_depth", "subdevice_role", "airflow",
                   "description", "weight", "weight_unit", "comments"}

\* netbox.dcim.manufacturers.get(**{key: value}): the id, or NoId
manufacturers_get(mf, key, value) ==
    LET hit == {m \in mf : m[key] = value}
    IN  IF hit = {} THEN NoId ELSE (CHOOSE m \in hit : TRUE).id

\* netbox_module.ensure_manufacturer: by exact name, then by slugify(name); a lookup
\* that raises (fail) is swallowed; never creates
ensure_manufacturer(mf, name, fail) ==
    IF ~Truthy(name) THEN NoId
    ELSE IF ~fail /\ manufacturers_get(mf, "name", name) # NoId
         THEN manufacturers_get(mf, "name", name)
    ELSE IF ~fail /\ manufacturers_get(mf, "slug", slugify(name)) # NoId
         THEN manufacturers_get(mf, "slug", slugify(name))
    ELSE NoId

\* the text forms normalize_payload takes for true
IsTrueText(v) == v \in {<<"t", "r", "u", "e">>, <<"y", "e", "s">>, <<"1">>}

\* a payload that is the definition itself
whole_definition(raw) == raw

\* netbox_module.normalize_payload for a mapping whose values are text: keys outside
\* the allow-list are dropped, the two boolean fields are normalised
normalize_payload(raw) ==
    IF ~is_dict(raw) THEN [k \in {} |-> 0]
    ELSE [k \in (DOMAIN raw) \cap ALLOWED_FIELDS |->
            IF k \in {"exclude_from_utilization", "is_full_depth"}
            THEN IsTrueText(lower(raw[k])) ELSE raw[k]]

\* payload[key] = value
put(d, k, v) == [x \in (DOMAIN d) \cup {k} |-> IF x = k THEN v ELSE d[x]]

Min(S) == CHOOSE x \in S : \A y \in S : x <= y

\* a lookup of the parent that never finds the entity
found_nothing(mt, payload, fail) == NoId

\* netbox_module.find_existing_module_type: by slug (get raises on several matches,
\* which is swallowed), then the first candidate of filter(model=...) whose
\* manufacturer id is the payload's; every lookup that raises (fail) is swallowed.
\* mt is the remote module-type table, a sequence indexed by id.
find_existing_module_type(mt, payload, fail) ==
    LET by_slug == IF "slug" \in DOMAIN payload /\ Truthy(payload["slug"])
                   THEN {i \in DOMAIN mt : get(mt[i].fields, "slug", None) = payload["slug"]}
                   ELSE {}
        by_model == IF "model" \in DOMAIN payload /\ "manufacturer" \in DOMAIN payload
                       /\ payload["manufacturer"] # NoId
                    THEN {i \in DOMAIN mt :
                            /\ get(mt[i].fields, "model", None) = payload["model"]
                            /\ get(mt[i].fields, "manufacturer", NoId) = payload["manufacturer"]}
                    ELSE {}
    IN  IF ~fail /\ Cardinality(by_slug) = 1 THEN Min(by_slug)
        ELSE IF ~fail /\ by_model # {} THEN Min(by_model)
        ELSE NoId

\* What the remote system accepts as a new module type: a payload with a model that
\* no module type of the same manufacturer carries; a fault of the call (f = "write")
\* has every write of a module type rejected.
module_type_accepts(mt, payload, f) ==
    /\ f # "write"
    /\ "model" \in DOMAIN payload
    /\ \A i \in DOMAIN mt :
          ~(/\ get(mt[i].fields, "model", None) = payload["model"]
            /\ get(mt[i].fields, "manufacturer", NoId) = payload["manufacturer"])

\* the marker tag's name and slug
ValidName == <<"V", "a", "l", "i", "d">>
ValidSlug == <<"v", "a", "l", "i", "d">>

\* What the remote system accepts as a new tag: a name and a slug no tag carries
tag_accepts(tg, name, slug) ==
    \A i \in DOMAIN tg : tg[i].name # name /\ tg[i].slug # slug

\* netbox_module.ensure_valid_tag: the id of the tag whose name is "Valid"; when the
\* lookup finds none (or raises, f = "tags" or several hits) the tag is created with
\* name "Valid" and slug "valid"; NoId when that create is rejected.  Returns [st, id].
ensure_valid_tag(st, f) ==
    LET hit == {i \in DOMAIN st.tg : st.tg[i].name = ValidName}
    IN  IF f # "tags" /\ Cardinality(hit) = 1 THEN [st |-> st, id |-> Min(hit)]
        ELSE IF f = "tags" \/ ~tag_accepts(st.tg, ValidName, ValidSlug)
        THEN [st |-> st, id |-> NoId]
        ELSE [st |-> [st EXCEPT !.tg = Append(@, [name |-> ValidName, slug |-> ValidSlug,
                                                   color |-> "4caf50"]),
                                !.ops = Append(@, "tags.create")],
              id |-> Len(st.tg) + 1]


\* ------------------------------------------- component templates
\* A value of a component item as yaml.safe_load yields it: text (t = "str", v a
\* sequence of characters), a number (t = "int") or a boolean (t = "bool").  Ids of
\* the remote system are Python ints as well.
TStr(x) == [t |-> "str", v |-> x]
TInt(n) == [t |-> "int", v |-> n]
TBool(b) == [t |-> "bool", v |-> b]

\* == between two values: values of different types are never equal
VEq(a, b) == a.t = b.t /\ a.v = b.v

\* isinstance(v, int): true of numbers and of booleans
IsInt(v) == v.t \in {"int", "bool"}

\* Python truthiness of a value
VTruthy(v) ==
    IF v.t = "str" THEN v.v # <<>> ELSE IF v.t = "int" THEN v.v # 0 ELSE v.v

DigitChars == <<"0", "1", "2", "3", "4", "5", "6", "7", "8", "9">>

\* str(v), for the one-digit numbers the definitions use as names
str_of(v) ==
    IF v.t = "str" THEN v.v
    ELSE IF v.t = "int" THEN <<DigitChars[v.v + 1]>>
    ELSE IF v.v THEN <<"T", "r", "u", "e">> ELSE <<"F", "a", "l", "s", "e">>

\* netbox_module.COMPONENT_MAP: the keys in the order of the dict literal, and for each
\* key the resource and the allowed fields
COMPONENT_KEYS == <<"console-ports", "console-server-ports", "power-ports", "power-outlets",
                    "interfaces", "rear-ports", "front-ports", "module-bays", "device-bays",
                    "inventory-items">>

COMPONENT_MAP(key) ==
    CASE key = "console-ports" ->
           [res |-> "console_port_templates",
            allowed |-> {"name", "label", "type", "_is_power_source"}]
      [] key = "console-server-ports" ->
           [res |-> "console_server_port_templates", allowed |-> {"name", "label", "type"}]
      [] key = "power-ports" ->
           [res |-> "power_port_templates",
            allowed |-> {"name", "label", "type", "maximum_draw", "allocated_draw",
                         "_is_power_source"}]
      [] key = "power-outlets" ->
           [res |-> "power_outlet_templates",
            allowed |-> {"name", "label", "type", "power_port", "feed_leg"}]
      [] key = "interfaces" ->
           [res |-> "interface_templates",
            allowed |-> {"name", "label", "type", "mgmt_only", "poe_mode", "poe_type"}]
      [] key = "rear-ports" ->
           [res |-> "rear_port_templates",
            allowed |-> {"name", "label", "type", "positions", "_is_power_source"}]
      [] key = "front-ports" ->
           [res |-> "front_port_templates",
            allowed |-> {"name", "label", "type", "rear_port", "rear_port_position"}]
      [] key = "module-bays" ->
           [res |-> "module_bay_templates", allowed |-> {"name", "label", "position"}]
      [] key = "device-bays" ->
           [res |-> "device_bay_templates", allowed |-> {"name", "label", "position"}]
      [] key = "inventory-items" ->
           [res |-> "inventory_item_templates",
            allowed |-> {"name", "label", "manufacturer", "part_id"}]

\* the words create_or_update_component takes for booleans
BoolWords == {<<"t", "r", "u", "e">>, <<"f", "a", "l", "s", "e">>, <<"y", "e", "s">>, <<"n", "o">>}

\* create_or_update_component, lines 141-158: the payload built from the item
component_payload(item, allowed, mt_id) ==
    [k \in ((DOMAIN item) \cap allowed) \cup {"module_type"} |->
        IF k = "module_type" THEN TInt(mt_id)
        ELSE IF k = "position" THEN TStr(str_of(item[k]))
        ELSE IF item[k].t = "str" /\ lower(item[k].v) \in BoolWords
             THEN TBool(IsTrueText(lower(item[k].v)))
        ELSE item[k]]

\* payload.pop(key, None)
pop(d, k) == [x \in (DOMAIN d) \ {k} |-> d[x]]

\* created_map.get(res, {}): the ids recorded under a resource, by name
cmap_ids(cm, res, name) == {e.id : e \in {x \in cm : x.res = res /\ x.name = name}}

\* created_map.setdefault(res, {})[name] = id
cmap_set(cm, res, name, id) ==
    {x \in cm : ~(x.res = res /\ x.name = name)} \cup {[res |-> res, name |-> name, id |-> id]}

\* the templates of a resource that belong to a module type and carry a name (the
\* remote system holds names as text)
templates_named(tpl, res, mt_id, name) ==
    {i \in DOMAIN tpl : tpl[i].res = res /\ tpl[i].module_type = mt_id /\ tpl[i].name = name}

\* lines 172-183 and 210-218: the reference looked up in created_map, by the value
\* itself and then by its text form; the value is left as it is when neither is there
from_created_map(cm, res, name_val) ==
    IF name_val.t = "str" /\ cmap_ids(cm, res, name_val.v) # {}
    THEN [v |-> TInt(CHOOSE i \in cmap_ids(cm, res, name_val.v) : TRUE), hit |-> TRUE]
    ELSE IF cmap_ids(cm, res, str_of(name_val)) # {}
    THEN [v |-> TInt(CHOOSE i \in cmap_ids(cm, res, str_of(name_val)) : TRUE), hit |-> TRUE]
    ELSE [v |-> name_val, hit |-> FALSE]

\* lines 170-236: how a reference of the payload is resolved.  how is "absent" (no such
\* key), "cache" (found in created_map), "literal" (an int that is passed on as it
\* is), "remote" (found by the lookup scoped to the module type), "unresolved" (the
\* lookup found nothing) or "raised" (the lookup raised); v is the id where there is one
resolve_reference(cm, tpl, payload, key, res, mt_id, f) ==
    IF key \notin DOMAIN payload THEN [how |-> "absent", v |-> TInt(NoId)]
    ELSE LET c == from_created_map(cm, res, payload[key])
             found == templates_named(tpl, res, mt_id, str_of(payload[key]))
         IN  IF c.hit THEN [how |-> "cache", v |-> c.v]
             ELSE IF IsInt(c.v) THEN [how |-> "literal", v |-> c.v]
             ELSE IF f = "ref" THEN [how |-> "raised", v |-> TInt(NoId)]
             ELSE IF found # {} THEN [how |-> "remote", v |-> TInt(Min(found))]
             ELSE [how |-> "unresolved", v |-> TInt(NoId)]

\* lines 239-247: the manufacturer name of an inventory item becomes an id, or the key
\* is dropped
resolve_item_manufacturer(payload, f) ==
    IF "manufacturer" \notin DOMAIN payload \/ ~VTruthy(payload["manufacturer"]) THEN payload
    ELSE LET v == payload["manufacturer"]
             man_id == IF v.t = "str" THEN ensure_manufacturer(Manufacturers, v.v, f = "ref")
                       ELSE NoId
         IN  IF man_id # NoId THEN put(payload, "manufacturer", TInt(man_id))
             ELSE pop(payload, "manufacturer")

\* What the remote system accepts of a template payload: a name, unique within the
\* resource and the module type; a rear_port or power_port that is the id of such a
\* template of the same module type.  self_id is the template being updated, or NoId.
\* A fault of the call (f = "tpl_write") has every write rejected.
reference_valid(tpl, payload, key, res, mt_id) ==
    key \in DOMAIN payload =>
        /\ payload[key].t = "int"
        /\ payload[key].v \in DOMAIN tpl
        /\ tpl[payload[key].v].res = res
        /\ tpl[payload[key].v].module_type = mt_id

remote_accepts(tpl, res, mt_id, payload, self_id, f) ==
    /\ f # "tpl_write"
    /\ "name" \in DOMAIN payload
    /\ templates_named(tpl, res, mt_id, str_of(payload["name"])) \subseteq {self_id}
    /\ reference_valid(tpl, payload, "rear_port", "rear_port_templates", mt_id)
    /\ reference_valid(tpl, payload, "power_port", "power_port_templates", mt_id)

\* what the remote system stores of an accepted payload
stored_fields(payload) ==
    [k \in (DOMAIN payload) \ {"module_type"} |->
        IF k = "name" THEN TStr(str_of(payload[k])) ELSE payload[k]]

\* The outcome create_or_update_component leaves in ret: status and info as the
\* function returns them, rear and power (how each reference was resolved), sent (the
\* requests issued, accepted or not) and payload (the payload of the last request, or
\* of the comparison)
component_ret(status, info, rear, power, sent, payload) ==
    [status |-> status, info |-> info, rear |-> rear, power |-> power, sent |-> sent,
     payload |-> payload]

\* a lookup of the existing template that goes by the name alone
existing_by_name(tpl, res, mt_id, payload) ==
    IF "name" \in DOMAIN payload
       /\ {i \in DOMAIN tpl : tpl[i].res = res /\ tpl[i].name = str_of(payload["name"])} # {}
    THEN Min({i \in DOMAIN tpl : tpl[i].res = res /\ tpl[i].name = str_of(payload["name"])})
    ELSE NoId

\* lines 250-266: the template of this name under the module type, or NoId
existing_component(tpl, res, mt_id, payload) ==
    IF "name" \in DOMAIN payload
       /\ templates_named(tpl, res, mt_id, str_of(payload["name"])) # {}
    THEN Min(templates_named(tpl, res, mt_id, str_of(payload["name"])))
    ELSE NoId

\* lines 251-266 with the lookup itself: a lookup that raises (f = "find") is printed
\* and leaves existing = None
find_component(tpl, res, mt_id, payload, f) ==
    IF f = "find" THEN NoId ELSE existing_component(tpl, res, mt_id, payload)

\* lines 270-276: some key of the update payload differs from what is stored
needs_update(stored, update_payload) ==
    \E k \in DOMAIN update_payload :
        k \notin DOMAIN stored \/ ~VEq(stored[k], update_payload[k])

\* lines 292-297: the create request; sent lists the requests issued before it
create_component(cs, res, mt_id, rear, power, payload, sent, f) ==
    IF remote_accepts(cs.tpl, res, mt_id, payload, NoId, f)
    THEN [cs EXCEPT !.tpl = Append(@, [res |-> res, module_type |-> mt_id,
                                      name |-> str_of(payload["name"]),
                                      f |-> stored_fields(payload)]),
                    !.ops = Append(@, "templates.create"),
                    !.ret = component_ret("created", Len(cs.tpl) + 1, rear, power,
                                          Append(sent, "create"), payload)]
    ELSE [cs EXCEPT !.ret = component_ret("error", NoId, rear, power,
                                          Append(sent, "create"), payload)]

\* lines 268-297: skip, update, or create; an update that raises falls through to
\* the create
write_component(cs, res, mt_id, rear, power, payload, existing, f) ==
    IF existing # NoId /\ ~needs_update(cs.tpl[existing].f, pop(payload, "module_type"))
    THEN [cs EXCEPT !.ret = component_ret("skipped", existing, rear, power, <<>>, payload)]
    ELSE IF existing # NoId
            /\ remote_accepts(cs.tpl, res, mt_id, pop(payload, "module_type"), existing, f)
    THEN [cs EXCEPT !.tpl[existing].f =
                        [k \in (DOMAIN @) \cup ((DOMAIN payload) \ {"module_type"}) |->
                            IF k \in DOMAIN payload /\ k # "module_type"
                            THEN stored_fields(payload)[k] ELSE @[k]],
                    !.tpl[existing].name = str_of(payload["name"]),
                    !.ops = Append(@, "templates.update"),
                    !.ret = component_ret("updated", existing, rear, power, <<"update">>,
                                          payload)]
    ELSE IF existing # NoId
    THEN create_component(cs, res, mt_id, rear, power, payload, <<"update">>, f)
    ELSE create_component(cs, res, mt_id, rear, power, payload, <<>>, f)

\* lines 207-266: the power_port of the payload is replaced by the id found, or
\* dropped when the lookup finds nothing or raises; then the manufacturer, the
\* lookup of the existing template and the write
with_power_port(cs, res, mt_id, payload1, rear, power, f) ==
    write_component(
        cs, res, mt_id, rear, power.how,
        resolve_item_manufacturer(
            IF power.how \in {"cache", "remote"} THEN put(payload1, "power_port", power.v)
            ELSE IF power.how \in {"unresolved", "raised"} THEN pop(payload1, "power_port")
            ELSE payload1, f),
        find_component(
            cs.tpl, res, mt_id,
            resolve_item_manufacturer(
                IF power.how \in {"cache", "remote"} THEN put(payload1, "power_port", power.v)
                ELSE IF power.how \in {"unresolved", "raised"}
                THEN pop(payload1, "power_port")
                ELSE payload1, f),
            f),
        f)

\* lines 170-204: the rear_port of the payload is replaced by the id found; the item
\* is given up with an error when the lookup finds nothing or raises
with_rear_port(cs, res, mt_id, payload0, rear, f) ==
    IF rear.how \in {"unresolved", "raised"}
    THEN [cs EXCEPT !.ret = component_ret("error", NoId, rear.how, "absent", <<>>, payload0)]
    ELSE with_power_port(
            cs, res, mt_id,
            IF rear.how = "absent" \/ rear.how = "literal" THEN payload0
            ELSE put(payload0, "rear_port", rear.v),
            rear.how,
            resolve_reference(
                cs.cm, cs.tpl,
                IF rear.how = "absent" \/ rear.how = "literal" THEN payload0
                ELSE put(payload0, "rear_port", rear.v),
                "power_port", "power_port_templates", mt_id, f),
            f)

\* lines 141-204: the payload is built, then its rear_port resolved
with_payload(cs, res, mt_id, payload0, f) ==
    with_rear_port(cs, res, mt_id, payload0,
                   resolve_reference(cs.cm, cs.tpl, payload0, "rear_port",
                                     "rear_port_templates", mt_id, f),
                   f)

\* netbox_module.create_or_update_component.  cs carries tpl (the remote templates,
\* indexed by id), ops, cm (created_map) and trace.  Returns cs with the writes done
\* and ret, the outcome
create_or_update_component(cs, res, mt_id, item, allowed, f) ==
    with_payload(cs, res, mt_id, component_payload(item, allowed, mt_id), f)

\* process_components, lines 350-367: what was created or updated is recorded in
\* created_map under str(name), when the item has a name that is true; c is the state
\* create_or_update_component returned for the item
record_result(c, res, mt_id, item) ==
    LET cached == c.ret.status \in {"created", "updated"} /\ "name" \in DOMAIN item
                  /\ VTruthy(item["name"])
    IN  [c EXCEPT !.cm = IF cached THEN cmap_set(@, res, str_of(item["name"]), c.ret.info)
                         ELSE @,
                  !.trace = Append(@, [res |-> res, mt |-> mt_id, item |-> item,
                                       cached |-> cached, ret |-> c.ret])]

\* an items loop that gives up at the first error
RECURSIVE process_items_until_error(_, _, _, _, _, _)
process_items_until_error(cs, res, mt_id, items, allowed, f) ==
    IF items = <<>> THEN cs
    ELSE IF create_or_update_component(cs, res, mt_id, Head(items), allowed, f).ret.status
                = "error"
    THEN record_result(create_or_update_component(cs, res, mt_id, Head(items), allowed, f),
                       res, mt_id, Head(items))
    ELSE CHOOSE out \in
            {process_items_until_error(c, res, mt_id, Tail(items), allowed, f) :
                c \in {record_result(
                          create_or_update_component(cs, res, mt_id, Head(items), allowed, f),
                          res, mt_id, Head(items))}} : TRUE

\* process_components, lines 348-374: every item of one section in turn; the state c
\* an iteration leaves is computed before the next iteration starts from it
RECURSIVE process_items(_, _, _, _, _, _)
process_items(cs, res, mt_id, items, allowed, f) ==
    IF items = <<>> THEN cs
    ELSE CHOOSE out \in
            {process_items(c, res, mt_id, Tail(items), allowed, f) :
                c \in {record_result(
                          create_or_update_component(cs, res, mt_id, Head(items), allowed, f),
                          res, mt_id, Head(items))}} : TRUE

\* an order that follows the dict literal backwards
keys_reversed == [i \in DOMAIN COMPONENT_KEYS |-> COMPONENT_KEYS[Len(COMPONENT_KEYS) + 1 - i]]

\* process_components, lines 328-331: the keys of COMPONENT_MAP with rear-ports moved
\* to the front
ordered_keys ==
    <<"rear-ports">> \o SelectSeq(COMPONENT_KEYS, LAMBDA k : k # "rear-ports")

\* doc.get(yaml_key): the items of a section of the document, in the order the
\* document lists its sections; <<>> when the section is absent
section_items(doc, yaml_key) ==
    IF "sections" \notin DOMAIN doc THEN <<>>
    ELSE LET hit == {i \in DOMAIN doc["sections"] : doc["sections"][i].key = yaml_key}
         IN  IF hit = {} THEN <<>> ELSE doc["sections"][Min(hit)].items

\* process_components, lines 335-337: the keys the loop does not pass over, those of
\* the sections the document fills
keys_with_items(doc, keys) ==
    SelectSeq(keys, LAMBDA k : section_items(doc, k) # <<>>)

RECURSIVE process_keys(_, _, _, _, _)
process_keys(cs, mt_id, doc, keys, f) ==
    IF keys = <<>> THEN cs
    ELSE CHOOSE out \in
            {process_keys(c, mt_id, doc, Tail(keys), f) :
                c \in {process_items(cs, COMPONENT_MAP(Head(keys)).res, mt_id,
                                     section_items(doc, Head(keys)),
                                     COMPONENT_MAP(Head(keys)).allowed, f)}} : TRUE

\* what process_components leaves in the state of the call: the templates, the
\* requests and the trace; created_map is local to it
components_done(st, cs) ==
    [st EXCEPT !.tpl = cs.tpl, !.ops = cs.ops, !.trace = cs.trace]

\* netbox_module.process_components on the state st of a process_file call: st.tpl
\* the remote templates, st.ops, st.trace; created_map starts empty for each document
process_components(st, mt_id, doc, f) ==
    components_done(st, process_keys([tpl |-> st.tpl, ops |-> st.ops, cm |-> {},
                                      trace |-> st.trace, ret |-> [status |-> "none"]],
                                     mt_id, doc, keys_with_items(doc, ordered_keys), f))

\* ------------------------------------------- netbox_module.process_file
\* st threads what one call reads and writes: ld the in-memory ledger, dk the
\* tracking file, mt the remote module types, tg the remote tags, and the record of
\* the call: ops the remote writes issued, marks the mark_as_* calls made, results the
\* outcome of each document.

\* the tag step after a create (lines 449-460): the created record has no tags, the
\* marker id is appended and written with update({"tags": ...}); skipped without a
\* marker id; a rejected update is only warned about
\* a tag step that takes back the create when the marker cannot be attached
tag_created_or_undone(st, id, valid_tag_id, f) ==
    IF valid_tag_id = NoId \/ f = "attach"
    THEN [st EXCEPT !.mt = SubSeq(@, 1, Len(@) - 1)]
    ELSE [st EXCEPT !.mt[id].tags = Append(@, valid_tag_id),
                    !.ops = Append(@, "module_types.update_tags")]

tag_created(st, id, valid_tag_id, f) ==
    IF valid_tag_id = NoId \/ valid_tag_id \in {st.mt[id].tags[i] : i \in DOMAIN st.mt[id].tags}
    THEN st
    ELSE IF f = "attach" THEN st
    ELSE [st EXCEPT !.mt[id].tags = Append(@, valid_tag_id),
                    !.ops = Append(@, "module_types.update_tags")]

\* one document of the file: the body of the loop of process_file (lines 408-484):
\* the parent entity, the marker tag on a created one, then process_components.
\* The process can be killed inside the call: right after module_types.create
\* returned (f = "stop_after_create"), or after process_components and before
\* mark_as_created (f = "stop_before_mark"); st.halted says that nothing more runs
process_doc(st, p, doc, f, valid_tag_id, now) ==
    IF ~is_dict(doc) THEN st
    ELSE
    LET man_name == IF Truthy(get(doc, "manufacturer", None))
                    THEN doc["manufacturer"] ELSE Parent(p)
        man_id == ensure_manufacturer(Manufacturers, man_name, f = "lookup")
        payload == put(normalize_payload(doc), "manufacturer", man_id)
        existing == find_existing_module_type(st.mt, payload, f \in {"lookup", "find"})
        new_id == Len(st.mt) + 1
        ok == f # "save"
    IN  IF man_id = NoId
        THEN mark_as_failed([st EXCEPT !.results = Append(@, [r |-> "no_manufacturer", id |-> NoId])],
                            p, "Manufacturer not present in NetBox", now, ok)
        ELSE IF existing # NoId /\ f = "write"
        THEN mark_as_failed([st EXCEPT !.results = Append(@, [r |-> "error", id |-> existing]),
                                       !.payloads = Append(@, payload)],
                            p, "Failed to update", now, ok)
        ELSE IF existing # NoId
        THEN mark_as_created(
                process_components(
                    [st EXCEPT !.mt[existing].fields =
                                   [k \in (DOMAIN @) \cup (DOMAIN payload) |->
                                       IF k \in DOMAIN payload THEN payload[k] ELSE @[k]],
                               !.ops = Append(@, "module_types.update"),
                               !.results = Append(@, [r |-> "updated", id |-> existing]),
                               !.payloads = Append(@, payload)],
                    existing, doc, f),
                p, existing, now, ok)
        ELSE IF ~module_type_accepts(st.mt, payload, f)
        THEN mark_as_failed([st EXCEPT !.results = Append(@, [r |-> "error", id |-> NoId]),
                                       !.payloads = Append(@, payload)],
                            p, "Failed to create", now, ok)
        ELSE IF f = "stop_after_create"
        THEN [st EXCEPT !.mt = Append(@, [fields |-> payload, tags |-> <<>>]),
                        !.ops = Append(@, "module_types.create"),
                        !.results = Append(@, [r |-> "created", id |-> new_id]),
                        !.payloads = Append(@, payload),
                        !.halted = TRUE]
        ELSE IF f = "stop_before_mark"
        THEN [process_components(
                tag_created([st EXCEPT !.mt = Append(@, [fields |-> payload, tags |-> <<>>]),
                                       !.ops = Append(@, "module_types.create"),
                                       !.results = Append(@, [r |-> "created", id |-> new_id]),
                                       !.payloads = Append(@, payload)],
                            new_id, valid_tag_id, f),
                new_id, doc, f) EXCEPT !.halted = TRUE]
        ELSE mark_as_created(
                process_components(
                    tag_created([st EXCEPT !.mt = Append(@, [fields |-> payload, tags |-> <<>>]),
                                           !.ops = Append(@, "module_types.create"),
                                           !.results = Append(@, [r |-> "created", id |-> new_id]),
                                           !.payloads = Append(@, payload)],
                                new_id, valid_tag_id, f),
                    new_id, doc, f),
                p, new_id, now, ok)

RECURSIVE process_docs(_, _, _, _, _, _)
process_docs(st, p, docs, f, valid_tag_id, now) ==
    IF docs = <<>> \/ st.halted THEN st
    ELSE CHOOSE out \in
            {process_docs(s, p, Tail(docs), f, valid_tag_id, now) :
                s \in {process_doc(st, p, Head(docs), f, valid_tag_id, now)}} : TRUE

\* netbox_module.process_file for a path registered in the ledger; fs is the set of
\* files on storage (opening a file that is gone raises)
process_file(st, p, f, fs, now) ==
    LET vt == ensure_valid_tag(st, f)
        st1 == [vt.st EXCEPT !.vt = vt.id]
        y == safe_load(p)
    IN  IF p \notin fs \/ f = "read"
        THEN mark_as_failed(st1, p, "File processing error", now, f # "save")
        ELSE IF y.raw = "none"
        THEN mark_as_skipped(st1, p, "Empty YAML file", now, f # "save")
        ELSE process_docs(st1, p, y.docs, f, vt.id, now)


\* ------------------------------------------------------- netbox_rack.py
\* the definition files under devicetype-library-master/rack-types
R1 == "AB/r1.yml"
R2 == "AB/r2.yml"
R3 == "AB/r3.yml"
RackPaths == {R1, R2, R3}

\* the tags value of a document is text ("x, y"), a list of texts, or absent
\* R1: tags given as comma-separated text
\* R2: no tags, a boolean field written as text, a key outside the allow-list
\* R3: an explicit id, tags given as a list that names the marker itself
RackDoc1 == [manufacturer |-> <<"A", "B">>, model |-> <<"r", "1">>, slug |-> <<"r", "1">>,
             tags |-> [kind |-> "str", v |-> <<"x", ",", " ", "y">>]]
RackDoc2 == [model |-> <<"r", "2">>, slug |-> <<"r", "2">>, desc_units |-> <<"Y", "e", "s">>,
             extra |-> <<"g">>]
RackDoc3 == [id |-> 1, model |-> <<"r", "3">>, slug |-> <<"r", "3">>,
             tags |-> [kind |-> "list", v |-> <<ValidSlug, <<" ", "x">>>>]]

rack_safe_load(p) ==
    IF p = R1 THEN <<RackDoc1>> ELSE IF p = R2 THEN <<RackDoc2>> ELSE <<RackDoc3>>

\* netbox_rack.ALLOWED_FIELDS
RACK_ALLOWED_FIELDS == {"manufacturer", "model", "slug", "width", "u_height", "form_factor",
                        "starting_unit", "desc_units", "outer_width", "outer_height",
                        "outer_depth", "outer_unit", "mounting_depth", "weight", "max_weight",
                        "weight_unit", "description", "comments", "tags", "id"}

\* netbox_rack.normalize_payload for a mapping whose plain values are text
rack_normalize_payload(raw) ==
    IF ~is_dict(raw) THEN [k \in {} |-> 0]
    ELSE [k \in (DOMAIN raw) \cap RACK_ALLOWED_FIELDS |->
            IF k = "desc_units" THEN IsTrueText(lower(raw[k])) ELSE raw[k]]

\* str.split(","): the pieces between the commas
RECURSIVE split_comma(_, _)
split_comma(s, piece) ==
    IF s = <<>> THEN <<piece>>
    ELSE IF Head(s) = "," THEN <<piece>> \o split_comma(Tail(s), <<>>)
    ELSE split_comma(Tail(s), Append(piece, Head(s)))

\* [t.strip() for t in pieces if t.strip()]
RECURSIVE strip_nonempty(_)
strip_nonempty(pieces) ==
    IF pieces = <<>> THEN <<>>
    ELSE (IF strip_chars(Head(pieces), {" "}) = <<>> THEN <<>>
          ELSE <<strip_chars(Head(pieces), {" "})>>) \o strip_nonempty(Tail(pieces))

Elems(q) == {q[i] : i \in DOMAIN q}

\* netbox_rack.ensure_tags, lines 88-101: the slugs to attach, the marker's slug added
\* when a marker tag is at hand and its slug is not in the list yet
tags_list_of(doc, valid_tag) ==
    LET given == IF "tags" \notin DOMAIN doc THEN <<>>
                 ELSE IF doc["tags"].kind = "str"
                      THEN strip_nonempty(split_comma(doc["tags"].v, <<>>))
                 ELSE strip_nonempty(doc["tags"].v)
    IN  IF valid_tag # NoId /\ ValidSlug \notin Elems(given)
        THEN Append(given, ValidSlug) ELSE given

\* netbox_rack.ensure_tags, lines 103-110: each slug is looked up and created when
\* absent; rs is [rt, tg, stats, ops, raised, ids]; a lookup that raises (f = "tags")
\* is not caught
RECURSIVE resolve_tags(_, _, _)
resolve_tags(rs, slugs, f) ==
    IF slugs = <<>> \/ rs.raised THEN rs
    ELSE IF f = "tags" THEN [rs EXCEPT !.raised = TRUE]
    ELSE LET hit == {i \in DOMAIN rs.tg : rs.tg[i].slug = Head(slugs)}
         IN  IF hit # {}
             THEN resolve_tags([rs EXCEPT !.ids = Append(@, Min(hit))], Tail(slugs), f)
             ELSE resolve_tags([rs EXCEPT !.tg = Append(@, [name |-> Head(slugs),
                                                           slug |-> Head(slugs)]),
                                          !.ops = Append(@, "tags.create"),
                                          !.ids = Append(@, Len(rs.tg) + 1)],
                               Tail(slugs), f)

ensure_tags(rs, doc, valid_tag, f) ==
    resolve_tags([rs EXCEPT !.ids = <<>>], tags_list_of(doc, valid_tag), f)

\* netbox_rack.get_or_create_valid_tag: by slug "valid", created when absent; NoId when
\* the tags endpoint raises.  Returns [tg, id].
get_or_create_valid_tag(tg, fail) ==
    LET hit == {i \in DOMAIN tg : tg[i].slug = ValidSlug}
    IN  IF fail THEN [tg |-> tg, id |-> NoId]
        ELSE IF hit # {} THEN [tg |-> tg, id |-> Min(hit)]
        ELSE [tg |-> Append(tg, [name |-> ValidName, slug |-> ValidSlug, color |-> "4caf50"]),
              id |-> Len(tg) + 1]

\* netbox_rack.find_existing_rack_type: by id (guarded), then by slug and by
\* (model, manufacturer), neither guarded.  Returns [id, raised].
find_existing_rack_type(rt, payload, f) ==
    LET by_id == IF "id" \in DOMAIN payload /\ payload["id"] # NoId /\ f # "find"
                 THEN {i \in DOMAIN rt : i = payload["id"]} ELSE {}
        has_slug == "slug" \in DOMAIN payload /\ Truthy(payload["slug"])
        by_slug == IF has_slug
                   THEN {i \in DOMAIN rt : get(rt[i].fields, "slug", None) = payload["slug"]}
                   ELSE {}
        has_model == "model" \in DOMAIN payload /\ "manufacturer" \in DOMAIN payload
                     /\ payload["manufacturer"] # NoId
        by_model == IF has_model
                    THEN {i \in DOMAIN rt :
                            /\ get(rt[i].fields, "model", None) = payload["model"]
                            /\ get(rt[i].fields, "manufacturer", NoId) = payload["manufacturer"]}
                    ELSE {}
    IN  IF by_id # {} THEN [id |-> Min(by_id), raised |-> FALSE]
        ELSE IF has_slug /\ (f = "find" \/ Cardinality(by_slug) > 1)
             THEN [id |-> NoId, raised |-> TRUE]
        ELSE IF by_slug # {} THEN [id |-> Min(by_slug), raised |-> FALSE]
        ELSE IF has_model /\ f = "find" THEN [id |-> NoId, raised |-> TRUE]
        ELSE IF by_model # {} THEN [id |-> Min(by_model), raised |-> FALSE]
        ELSE [id |-> NoId, raised |-> FALSE]

\* netbox_rack.has_valid_tag on the tag ids of a record
has_valid_tag(rec_tags, valid_tag) ==
    valid_tag # NoId /\ rec_tags # <<>> /\ valid_tag \in Elems(rec_tags)

\* netbox_rack.add_valid_tag_to_existing: rec_tags are the tag ids the record holds;
\* the marker id is appended and the record saved only when it is not among them; a
\* save that raises (f = "save") is caught and reported as False
add_valid_tag_to_existing(rs, id, rec_tags, valid_tag, f) ==
    IF valid_tag = NoId \/ valid_tag \in Elems(rec_tags) \/ f = "save"
    THEN [rs EXCEPT !.ret = FALSE]
    ELSE [rs EXCEPT !.rt[id].fields = put(@, "tags", Append(rec_tags, valid_tag)),
                    !.ops = Append(@, "rack_types.save"),
                    !.ret = TRUE]

bump(stats, k) == [stats EXCEPT ![k] = @ + 1]

\* one document of a rack file: the body of the loop of netbox_rack.process_file
\* (lines 214-268)
rack_process_doc(rs, p, doc, valid_tag, f) ==
    IF rs.raised \/ ~is_dict(doc) THEN rs
    ELSE
    LET man_name == IF Truthy(get(doc, "manufacturer", None))
                    THEN doc["manufacturer"] ELSE Parent(p)
        man_id == ensure_manufacturer(Manufacturers, man_name, f = "mfr")
        rs1 == ensure_tags(rs, doc, valid_tag, f)
        payload == put(put(rack_normalize_payload(doc), "manufacturer", man_id), "tags", rs1.ids)
        found == find_existing_rack_type(rs1.rt, payload, f)
        existing == found.id
        needs_valid_tag == valid_tag # NoId
                           /\ ~has_valid_tag(get(rs1.rt[existing].fields, "tags", <<>>), valid_tag)
        updated == [rs1 EXCEPT !.rt[existing].fields =
                                   [k \in (DOMAIN @) \cup (DOMAIN payload) |->
                                       IF k \in DOMAIN payload THEN payload[k] ELSE @[k]],
                               !.ops = Append(@, "rack_types.update"),
                               !.stats = bump(@, "updated")]
        tagged == add_valid_tag_to_existing(updated, existing, payload["tags"], valid_tag, f)
    IN  IF man_id = NoId THEN [rs EXCEPT !.stats = bump(@, "skipped")]
        ELSE IF rs1.raised THEN rs1
        ELSE IF found.raised THEN [rs1 EXCEPT !.raised = TRUE]
        ELSE IF existing # NoId /\ f = "write" THEN [rs1 EXCEPT !.stats = bump(@, "errors")]
        ELSE IF existing # NoId /\ ~needs_valid_tag THEN updated
        ELSE IF existing # NoId
             THEN IF tagged.ret THEN [tagged EXCEPT !.stats = bump(@, "tagged")] ELSE tagged
        ELSE IF f = "write" THEN [rs1 EXCEPT !.stats = bump(@, "errors")]
        ELSE [rs1 EXCEPT !.rt = Append(@, [fields |-> payload]),
                         !.ops = Append(@, "rack_types.create"),
                         !.stats = bump(@, "created")]

RECURSIVE rack_process_docs(_, _, _, _, _)
rack_process_docs(rs, p, docs, valid_tag, f) ==
    IF docs = <<>> THEN rs
    ELSE rack_process_docs(rack_process_doc(rs, p, Head(docs), valid_tag, f),
                           p, Tail(docs), valid_tag, f)

\* netbox_rack.process_file: open and yaml.safe_load are not guarded, so a file that
\* cannot be read or parsed (f = "read") raises out of the function
rack_process_file(rs, p, valid_tag, f) ==
    IF f = "read" THEN [rs EXCEPT !.raised = TRUE]
    ELSE rack_process_docs(rs, p, rack_safe_load(p), valid_tag, f)

\* ---------------------------------------------- state of the module-type runs
VARIABLES
    files,          \* the definition files on storage (relative paths)
    disk,           \* module_type_progress.json: [state, data]
    progress_data,  \* tracker.progress_data of the running script
    pc,             \* where netbox_module.main stands: idle, loaded, scanned, running
    run,            \* number of invocations so far; also the clock of datetime.now()
    mode,           \* "pending" after the answer y to the prompt, else "all"
    todo,           \* the files main still has to hand to process_file in this run
    done,           \* the files handed to process_file in this run
    loaded,         \* the status of each item as load_progress returned it in this run
    module_types,   \* remote module types, indexed by id: [fields, tags]
    tags,           \* remote tags, indexed by id: [name, slug, color]
    templates,      \* remote component templates, indexed by id: [res, module_type, name, f]
    last,           \* record of the latest process_file call of the running script
    fs_changes,     \* number of changes of the file tree so far
    faults          \* number of calls that met a fault so far

\* ------------------------------------------------ state of the rack-type runs
VARIABLES
    rack_files,     \* the definition files under rack-types
    rack_pc,        \* where netbox_rack.main stands: idle, running, done, aborted
    rack_run,       \* number of invocations of netbox_rack.main so far
    rack_todo,      \* the files main still has to hand to process_file in this run
    valid_tag,      \* the id get_or_create_valid_tag returned to main, or NoId
    rack_types,     \* remote rack types, indexed by id: [fields]
    rack_tags,      \* remote tags, indexed by id: [name, slug]
    stats,          \* the counters main prints at the end
    rack_last,      \* record of the latest process_file call of netbox_rack
    rack_faults     \* number of rack calls that met a fault so far

\* ------------------------------------------------ what happened to the process
VARIABLES
    crashed         \* the paths whose process_file call was cut off after a remote
                    \* create and before mark_as_created

\* ------------------------------------------------ state of the slug computations
VARIABLES
    slug_pc,        \* "input": a name is at hand; "done": the three slugify were applied
                    \* to it; "again": slugify was applied to its own result
    slug_name,      \* the name
    slug_out        \* [module, rack, manufacturer, again]: the results

\* ------------------------------------------------ state of master_cleanup
VARIABLES
    clean_target,   \* whether devicetype-library-master exists and is a directory
    clean_tree,     \* the files and directories under it: [path, dir]
    clean_run       \* record of the latest run of master_cleanup.main

\* ------------------------------------------------ state of main.py
VARIABLES
    orch_pc,        \* where main.py stands: idle, running, stopped (the loop was left by
                    \* break), done (the loop ran to its end), raised
    orch_log        \* the child processes started so far: [script, args, code]

\* ------------------------------------------------ state of the tracker menus
VARIABLES
    menu_kind,      \* whose main runs: "device" (device_type_tracker) or "module"
    menu_files,     \* the definition files under the tracker's directory
    menu_disk,      \* the tracking file of the tracker
    menu_data,      \* tracker.progress_data
    menu_pc,        \* idle, menu (the loop waits for an option), no_scan, exited, raised
    menu_last       \* record of the option handled last

modvars == <<files, disk, progress_data, pc, run, mode, todo, done, loaded, module_types, tags,
             templates, last, fs_changes, faults, crashed>>
rackvars == <<rack_files, rack_pc, rack_run, rack_todo, valid_tag, rack_types, rack_tags,
              stats, rack_last, rack_faults>>
slugvars == <<slug_pc, slug_name, slug_out>>
cleanvars == <<clean_target, clean_tree, clean_run>>
orchvars == <<orch_pc, orch_log>>
menuvars == <<menu_kind, menu_files, menu_disk, menu_data, menu_pc, menu_last>>
toolvars == <<slugvars, cleanvars, orchvars, menuvars>>
vars == <<modvars, rackvars, toolvars>>

\* a ledger value for "no tracker in memory"
NoLedger == load_progress([state |-> "missing"], 0)

NoCall == [path |-> "", fault |-> "none", pre |-> "none",
           ops |-> <<>>, marks |-> <<>>, results |-> <<>>, trace |-> <<>>,
           payloads |-> <<>>, vt |-> NoId]

\* a module type that exists remotely before the first run, without any tag
PreExisting == [fields |-> [manufacturer |-> 1, model |-> <<"x", "1">>, slug |-> <<"x", "1">>],
                tags |-> <<>>]

ModInit ==
    /\ files = {P1, P2}
    /\ disk = [state |-> "missing", data |-> NoLedger]
    /\ progress_data = NoLedger
    /\ pc = "idle"
    /\ run = 0
    /\ mode = "none"
    /\ todo = {}
    /\ done = {}
    /\ loaded = [p \in {} |-> "pending"]
    /\ module_types \in {<<>>, <<PreExisting>>}
    /\ tags = <<>>
    /\ templates = <<>>
    /\ last = NoCall
    /\ fs_changes = 0
    /\ faults = 0
    /\ crashed = {}

\* storage changes between two invocations
AddFile(p) ==
    /\ pc = "idle" /\ p \notin files /\ fs_changes < MaxFsChanges
    /\ files' = files \cup {p}
    /\ fs_changes' = fs_changes + 1
    /\ UNCHANGED <<disk, progress_data, pc, run, mode, todo, done, loaded, module_types, tags, templates,
                   last, faults>>
    /\ UNCHANGED <<crashed, rackvars, toolvars>>

RemoveFile(p) ==
    /\ pc = "idle" /\ p \in files /\ fs_changes < MaxFsChanges
    /\ files' = files \ {p}
    /\ fs_changes' = fs_changes + 1
    /\ UNCHANGED <<disk, progress_data, pc, run, mode, todo, done, loaded, module_types, tags, templates,
                   last, faults>>
    /\ UNCHANGED <<crashed, rackvars, toolvars>>

\* main, line 504: ModuleTypeTracker(base_dir) loads the tracking file
LoadTracker ==
    /\ pc \in {"idle", "crashed"} /\ run < MaxRuns
    /\ run' = run + 1
    /\ IF load_raises(disk)
       THEN /\ pc' = "crashed"
            /\ progress_data' = NoLedger
            /\ loaded' = [p \in {} |-> "pending"]
       ELSE /\ pc' = "loaded"
            /\ progress_data' = load_progress(disk, run + 1)
            /\ loaded' = [p \in DOMAIN load_progress(disk, run + 1).module_types |->
                              load_progress(disk, run + 1).module_types[p].status]
    /\ mode' = "none" /\ todo' = {} /\ done' = {}
    /\ UNCHANGED <<files, disk, module_types, tags, templates, last, fs_changes, faults>>
    /\ UNCHANGED <<crashed, rackvars, toolvars>>

\* main, lines 506-511: scan_module_types.  Without files it returns False, main goes
\* on without tracker, finds no file either and returns.
Scan(ok) ==
    /\ pc = "loaded"
    /\ ok \/ (files # {} /\ faults < MaxFaults)
    /\ faults' = IF ok THEN faults ELSE faults + 1
    /\ IF files = {}
       THEN /\ pc' = "idle"
            /\ progress_data' = NoLedger
            /\ loaded' = [p \in {} |-> "pending"]
            /\ UNCHANGED disk
       ELSE LET st == save_progress([ld |-> scan_items(progress_data, files), dk |-> disk],
                                    run, ok)
            IN  /\ progress_data' = st.ld
                /\ disk' = st.dk
                /\ pc' = "scanned"
                /\ UNCHANGED loaded
    /\ UNCHANGED <<files, run, mode, todo, done, module_types, tags, templates, last, fs_changes>>
    /\ UNCHANGED <<crashed, rackvars, toolvars>>

\* main, lines 514-547: with fewer pending items than files the operator is asked;
\* the answer y processes the pending items only, anything else every file found
Choose(choice) ==
    /\ pc = "scanned"
    /\ LET pending == get_pending_module_types(progress_data)
       IN  IF Cardinality(pending) < progress_data.total_files /\ choice = "y"
           THEN mode' = "pending" /\ todo' = pending
           ELSE mode' = "all" /\ todo' = files
    /\ pc' = "running"
    /\ UNCHANGED <<files, disk, progress_data, run, done, loaded, module_types, tags, templates, last,
                   fs_changes, faults>>
    /\ UNCHANGED <<crashed, rackvars, toolvars>>

\* the order in which glob and the ledger's mapping yield the paths
Rank(p) ==
    IF p = P1 THEN 1 ELSE IF p = P2 THEN 2 ELSE IF p = P3 THEN 3 ELSE IF p = P4 THEN 4
    ELSE IF p = P5 THEN 5 ELSE IF p = P6 THEN 6 ELSE IF p = P7 THEN 7 ELSE 8
Before(p, q) == Rank(p) < Rank(q)
NextOf(S) == CHOOSE p \in S : \A q \in S \ {p} : Before(p, q)

\* one turn of either loop of main: process_file on the next file
ProcessNext(p, f) ==
    /\ pc = "running" /\ todo # {} /\ p = NextOf(todo)
    /\ f = "none" \/ faults < MaxFaults
    /\ faults' = IF f = "none" THEN faults ELSE faults + 1
    /\ LET st0 == [ld |-> progress_data, dk |-> disk, mt |-> module_types, tg |-> tags,
                   tpl |-> templates, ops |-> <<>>, marks |-> <<>>, results |-> <<>>,
                   trace |-> <<>>, payloads |-> <<>>, vt |-> NoId, halted |-> FALSE]
           st == process_file(st0, p, f, files, run)
       IN  /\ progress_data' = st.ld
           /\ disk' = st.dk
           /\ module_types' = st.mt
           /\ tags' = st.tg
           /\ templates' = st.tpl
           /\ last' = [path |-> p, fault |-> f,
                       pre |-> IF p \in DOMAIN progress_data.module_types
                               THEN progress_data.module_types[p].status ELSE "none",
                       ops |-> st.ops, marks |-> st.marks, results |-> st.results,
                       trace |-> st.trace, payloads |-> st.payloads, vt |-> st.vt]
    /\ todo' = todo \ {p}
    /\ done' = done \cup {p}
    /\ UNCHANGED <<files, pc, run, mode, loaded, fs_changes>>
    /\ UNCHANGED <<crashed, rackvars, toolvars>>

\* main returns after the last file
Finish ==
    /\ pc = "running" /\ todo = {}
    /\ pc' = "idle"
    /\ progress_data' = NoLedger
    /\ last' = NoCall
    /\ mode' = "none" /\ todo' = {} /\ done' = {}
    /\ loaded' = [p \in {} |-> "pending"]
    /\ UNCHANGED <<files, disk, run, module_types, tags, templates, fs_changes, faults>>
    /\ UNCHANGED <<crashed, rackvars, toolvars>>

\* the process is stopped (between two items, or before the first)
Interrupt ==
    /\ pc \in {"loaded", "scanned", "running"}
    /\ pc' = "idle"
    /\ progress_data' = NoLedger
    /\ last' = NoCall
    /\ mode' = "none" /\ todo' = {} /\ done' = {}
    /\ loaded' = [p \in {} |-> "pending"]
    /\ UNCHANGED <<files, disk, run, module_types, tags, templates, fs_changes, faults>>
    /\ UNCHANGED <<crashed, rackvars, toolvars>>

\* where the process can be killed inside process_file
StopPoints == {"stop_after_create", "stop_before_mark"}

\* the process is killed inside process_file on the next file, after the remote
\* create of a module type and before mark_as_created: what was written remotely and
\* to the tracking file stays, the ledger in memory is gone
Crash(p, f) ==
    /\ pc = "running" /\ todo # {} /\ p = NextOf(todo)
    /\ faults < MaxFaults
    /\ LET st0 == [ld |-> progress_data, dk |-> disk, mt |-> module_types, tg |-> tags,
                   tpl |-> templates, ops |-> <<>>, marks |-> <<>>, results |-> <<>>,
                   trace |-> <<>>, payloads |-> <<>>, vt |-> NoId, halted |-> FALSE]
           st == process_file(st0, p, f, files, run)
       IN  /\ st.halted
           /\ disk' = st.dk
           /\ module_types' = st.mt
           /\ tags' = st.tg
           /\ templates' = st.tpl
    /\ faults' = faults + 1
    /\ crashed' = crashed \cup {p}
    /\ pc' = "idle"
    /\ progress_data' = NoLedger
    /\ last' = NoCall
    /\ mode' = "none" /\ todo' = {} /\ done' = {}
    /\ loaded' = [q \in {} |-> "pending"]
    /\ UNCHANGED <<files, run, fs_changes>>
    /\ UNCHANGED <<rackvars, toolvars>>

\* ------------------------------------------------------ netbox_rack.main
ZeroStats == [created |-> 0, updated |-> 0, tagged |-> 0, skipped |-> 0, errors |-> 0]

RackNoCall == [path |-> "", fault |-> "none", pre |-> <<>>, ops |-> <<>>]

\* What one call of the rack process_file can run into: nothing, an unreadable or
\* unparsable file, manufacturer lookups that raise, a tag lookup that raises, a rack
\* type lookup that raises, a rejected create/update, a rejected save of the tags.
RackFaults == {"none", "read", "mfr", "tags", "find", "write", "save"}

\* what the remote system holds before the first rack run: nothing; a rack type r1
\* carrying a tag z that no definition names; the same with the marker tag as well
TagZ == [name |-> <<"z">>, slug |-> <<"z">>]
TagValid == [name |-> ValidName, slug |-> ValidSlug, color |-> "4caf50"]
RackPre(tag_ids) ==
    [fields |-> [manufacturer |-> 1, model |-> <<"r", "1">>, slug |-> <<"r", "1">>,
                 tags |-> tag_ids]]
RackRemotes == {[tg |-> <<>>, rt |-> <<>>],
                [tg |-> <<TagZ>>, rt |-> <<RackPre(<<1>>)>>],
                [tg |-> <<TagZ, TagValid>>, rt |-> <<RackPre(<<1, 2>>)>>]}

RackInit ==
    /\ rack_files \in SUBSET RackPaths
    /\ rack_pc = "idle"
    /\ rack_run = 0
    /\ rack_todo = {}
    /\ valid_tag = NoId
    /\ \E r \in RackRemotes : rack_types = r.rt /\ rack_tags = r.tg
    /\ stats = ZeroStats
    /\ rack_last = RackNoCall
    /\ rack_faults = 0

\* main, lines 273-298: the marker tag is fetched or created, the files are globbed;
\* without files main returns
RackStart(ok) ==
    /\ rack_pc \in {"idle", "done", "aborted"} /\ rack_run < MaxRuns
    /\ ok \/ rack_faults < MaxFaults
    /\ rack_faults' = IF ok THEN rack_faults ELSE rack_faults + 1
    /\ rack_run' = rack_run + 1
    /\ LET v == get_or_create_valid_tag(rack_tags, ~ok)
       IN  rack_tags' = v.tg /\ valid_tag' = v.id
    /\ rack_todo' = rack_files
    /\ rack_pc' = IF rack_files = {} THEN "done" ELSE "running"
    /\ stats' = ZeroStats
    /\ rack_last' = RackNoCall
    /\ UNCHANGED <<rack_files, rack_types>>
    /\ UNCHANGED <<modvars, toolvars>>

\* the order in which glob yields the rack files
RackRank(p) == IF p = R1 THEN 1 ELSE IF p = R2 THEN 2 ELSE 3
RackNextOf(S) == CHOOSE p \in S : \A q \in S \ {p} : RackRank(p) < RackRank(q)

\* main, lines 299-300: one turn of the loop; nothing catches what process_file
\* raises, so the script ends there with the traceback
RackProcess(p, f) ==
    /\ rack_pc = "running" /\ rack_todo # {} /\ p = RackNextOf(rack_todo)
    /\ f = "none" \/ rack_faults < MaxFaults
    /\ rack_faults' = IF f = "none" THEN rack_faults ELSE rack_faults + 1
    /\ LET rs0 == [rt |-> rack_types, tg |-> rack_tags, stats |-> stats, ops |-> <<>>,
                   raised |-> FALSE, ids |-> <<>>, ret |-> FALSE]
           rs == rack_process_file(rs0, p, valid_tag, f)
       IN  /\ rack_types' = rs.rt
           /\ rack_tags' = rs.tg
           /\ stats' = rs.stats
           /\ rack_last' = [path |-> p, fault |-> f, pre |-> rack_types, ops |-> rs.ops]
           /\ rack_pc' = IF rs.raised THEN "aborted" ELSE "running"
    /\ rack_todo' = rack_todo \ {p}
    /\ UNCHANGED <<rack_files, rack_run, valid_tag>>
    /\ UNCHANGED <<modvars, toolvars>>

\* main, line 302: the totals are printed after the last file
RackFinish ==
    /\ rack_pc = "running" /\ rack_todo = {}
    /\ rack_pc' = "done"
    /\ UNCHANGED <<rack_files, rack_run, rack_todo, valid_tag, rack_types, rack_tags, stats,
                   rack_last, rack_faults>>
    /\ UNCHANGED <<modvars, toolvars>>

\* ----------------------------------------------------------- specifications
\* the rack script at rest, untouched by the module-type runs
RackIdle ==
    /\ rack_files = {}
    /\ rack_pc = "idle"
    /\ rack_run = 0
    /\ rack_todo = {}
    /\ valid_tag = NoId
    /\ rack_types = <<>>
    /\ rack_tags = <<>>
    /\ stats = ZeroStats
    /\ rack_last = RackNoCall
    /\ rack_faults = 0

\* ------------------------------------------------------ slugify
\* longest name of the enumeration
MaxSlugLen == 4

\* the characters of the names: a capital and a small letter, a digit, the ampersand,
\* the hyphen, white space, punctuation, and letters outside ASCII
SlugChars == {"A", "a", "1", "&", "-", " ", ".", EAcuteUpper, KelvinSign}

\* the name of the documented example
CiscoAndCo == <<"C", "i", "s", "c", "o", " ", "&", " ", "C", "o", ".">>

SlugNames ==
    UNION {[1..n -> SlugChars] : n \in 0..MaxSlugLen} \cup {CiscoAndCo, <<"\t", "a", "\n">>}

NoSlugs == [module |-> None, rack |-> None, manufacturer |-> None, again |-> None]

\* no name is at hand
SlugIdle ==
    /\ slug_pc = "idle"
    /\ slug_name = <<>>
    /\ slug_out = NoSlugs

SlugInit ==
    /\ slug_pc = "input"
    /\ slug_name \in SlugNames
    /\ slug_out = NoSlugs

\* each of the three scripts derives the slug of the name
Slugify ==
    /\ slug_pc = "input"
    /\ slug_pc' = "done"
    /\ slug_out' = [slug_out EXCEPT !.module = slugify(slug_name),
                                    !.rack = rack_slugify(slug_name),
                                    !.manufacturer = manufacturer_slugify(slug_name)]
    /\ UNCHANGED <<slug_name, modvars, rackvars, cleanvars, orchvars, menuvars>>

\* a slug is handed to slugify once more (a definition whose name is a slug already)
SlugifyAgain ==
    /\ slug_pc = "done"
    /\ slug_pc' = "again"
    /\ slug_out' = [slug_out EXCEPT !.again = slugify(slug_out.module)]
    /\ UNCHANGED <<slug_name, modvars, rackvars, cleanvars, orchvars, menuvars>>

\* ------------------------------------------------------ master_cleanup.py
\* str.startswith and str.endswith
startswith(s, prefix) == Len(s) >= Len(prefix) /\ SubSeq(s, 1, Len(prefix)) = prefix
endswith(s, suffix) ==
    Len(s) >= Len(suffix) /\ SubSeq(s, Len(s) - Len(suffix) + 1, Len(s)) = suffix

LICENSE_PATTERNS ==
    {<<"l", "i", "c", "e", "n", "s", "e">>, <<"l", "i", "c", "e", "n", "s", "e", ".", "t", "x", "t">>,
     <<"l", "i", "c", "e", "n", "s", "e", ".", "m", "d">>, <<"l", "i", "c", "e", "n", "s", "e", ".", "r", "s", "t">>}
README_PREFIXES ==
    {<<"r", "e", "a", "d", "m", "e">>, <<"r", "e", "a", "d", "m", "e", ".", "m", "d">>,
     <<"r", "e", "a", "d", "m", "e", ".", "t", "x", "t">>, <<"r", "e", "a", "d", "m", "e", ".", "r", "s", "t">>}
REQUIREMENTS_FILENAMES == {<<"r", "e", "q", "u", "i", "r", "e", "m", "e", "n", "t", "s", ".", "t", "x", "t">>}
CONTRIBUTING_FILENAMES ==
    {<<"c", "o", "n", "t", "r", "i", "b", "u", "t", "i", "n", "g">>, <<"c", "o", "n", "t", "r", "i", "b", "u", "t", "i", "n", "g", ".", "m", "d">>,
     <<"c", "o", "n", "t", "r", "i", "b", "u", "t", "i", "n", "g", ".", "t", "x", "t">>}

should_remove_file(name) ==
    \/ startswith(lower(name), <<".">>)
    \/ lower(name) \in LICENSE_PATTERNS
    \/ lower(name) \in REQUIREMENTS_FILENAMES
    \/ lower(name) \in CONTRIBUTING_FILENAMES
    \/ \E prefix \in README_PREFIXES :
          lower(name) = prefix \/ startswith(lower(name), prefix \o <<".">>)

\* collect_targets, lines 64-73: the test on a directory name
should_remove_dir(directory) ==
    \/ startswith(directory, <<".">>)
    \/ lower(directory) \in {<<"t", "e", "s", "t", "s">>, <<"s", "c", "r", "i", "p", "t", "s">>, <<"s", "c", "h", "e", "m", "a">>}
    \/ endswith(lower(directory), <<"-", "i", "m", "a", "g", "e", "s">>)

\* the names of the tree
NGit == <<".", "g", "i", "t">>
NTests == <<"T", "e", "s", "t", "s">>
NImages == <<"A", "b", "-", "I", "m", "a", "g", "e", "s">>
NDeviceTypes == <<"d", "e", "v", "i", "c", "e", "-", "t", "y", "p", "e", "s">>
NHidden == <<".", "h">>
NLicense == <<"L", "I", "C", "E", "N", "S", "E">>
NReadme == <<"R", "E", "A", "D", "M", "E", ".", "m", "d">>
NReadmeBak == <<"R", "e", "a", "d", "m", "e", ".", "r", "s", "t", ".", "b", "a", "k">>
NReadmex == <<"r", "e", "a", "d", "m", "e", "x">>
NYml == <<"a", ".", "y", "m", "l">>

\* a path is the sequence of names below the target; the entries a tree can hold
Dir(path) == [path |-> path, dir |-> TRUE]
File(path) == [path |-> path, dir |-> FALSE]
TreeEntries ==
    {Dir(<<NDeviceTypes>>), File(<<NDeviceTypes, NReadmex>>), File(<<NDeviceTypes, NReadme>>),
     Dir(<<NDeviceTypes, NTests>>), File(<<NDeviceTypes, NTests, NHidden>>),
     File(<<NDeviceTypes, NTests, NYml>>),
     Dir(<<NGit>>), Dir(<<NGit, NImages>>),
     File(<<NLicense>>), File(<<NReadmeBak>>), Dir(<<NImages>>)}

\* path a lies below the directory path d
Below(a, d) == Len(a) > Len(d) /\ SubSeq(a, 1, Len(d)) = d

\* the trees: every entry but those of the top lies in a directory of the tree
Trees ==
    {t \in SUBSET TreeEntries :
        \A n \in t : Len(n.path) > 1 =>
            Dir(SubSeq(n.path, 1, Len(n.path) - 1)) \in t}

\* what os.walk yields for the directory current: its entries
entries_of(tree, current) ==
    {n \in tree : Len(n.path) = Len(current) + 1 /\ Below(n.path, current)}
name_of(n) == n.path[Len(n.path)]

\* lines 60-73: the directories of current that are listed, and those walked into
listed_dirs(tree, current) ==
    {n.path : n \in {m \in entries_of(tree, current) : m.dir /\ should_remove_dir(name_of(m))}}
keep_dirs(tree, current) ==
    {n.path : n \in {m \in entries_of(tree, current) : m.dir /\ ~should_remove_dir(name_of(m))}}
\* lines 78-80: the files of current that are listed
listed_files(tree, current) ==
    {n.path : n \in {m \in entries_of(tree, current) :
                        ~m.dir /\ should_remove_file(name_of(m))}}

\* the walk from current downwards; os.walk does not enter the directories taken
\* out of dirnames
RECURSIVE walk_files(_, _)
walk_files(tree, current) ==
    listed_files(tree, current)
        \cup UNION {walk_files(tree, d) : d \in keep_dirs(tree, current)}
RECURSIVE walk_dirs(_, _)
walk_dirs(tree, current) ==
    listed_dirs(tree, current)
        \cup UNION {walk_dirs(tree, d) : d \in keep_dirs(tree, current)}

\* len(str(path))
RECURSIVE path_length(_)
path_length(path) ==
    IF path = <<>> THEN 0 ELSE Len(Head(path)) + 1 + path_length(Tail(path))

\* dirs_to_remove.sort(key=len(str(path)), reverse=True)
RECURSIVE sorted_by_length(_)
sorted_by_length(dirs) ==
    IF dirs = {} THEN <<>>
    ELSE LET d == CHOOSE x \in dirs : \A y \in dirs : path_length(x) >= path_length(y)
         IN  <<d>> \o sorted_by_length(dirs \ {d})

\* collect_targets(root): the files as a set, the directories longest path first
collect_targets(tree) ==
    [files |-> walk_files(tree, <<>>), dirs |-> sorted_by_length(walk_dirs(tree, <<>>))]

\* perform_deletions, the loop over the directories: shutil.rmtree takes the
\* directory and all below it; on a path of bad it raises OSError, the directory
\* stays, and what lay below it is gone when partial is true.  c is [tree, n]
RECURSIVE remove_dirs(_, _, _, _, _)
remove_dirs(c, dirs, dry_run, bad, partial) ==
    IF dirs = <<>> THEN c
    ELSE IF dry_run THEN remove_dirs(c, Tail(dirs), dry_run, bad, partial)
    ELSE IF Head(dirs) \in bad
    THEN remove_dirs([c EXCEPT !.tree = IF partial
                                        THEN {n \in @ : ~Below(n.path, Head(dirs))}
                                        ELSE @],
                     Tail(dirs), dry_run, bad, partial)
    ELSE remove_dirs([tree |-> {n \in c.tree :
                                  n.path # Head(dirs) /\ ~Below(n.path, Head(dirs))},
                      n |-> c.n + 1],
                     Tail(dirs), dry_run, bad, partial)

\* deletions that do not look at dry_run
deletes_in_dry_run(tree, targets, dry_run, bad, partial) ==
    [removed_files |-> 0,
     out |-> remove_dirs([tree |-> {n \in tree : n.path \notin targets.files}, n |-> 0],
                         targets.dirs, FALSE, bad, partial)]

\* perform_deletions(files, dirs, dry_run): unlink raises OSError on a path of bad.
\* Returns the tree and the counts
perform_deletions(tree, targets, dry_run, bad, partial) ==
    [removed_files |-> IF dry_run THEN 0 ELSE Cardinality(targets.files \ bad),
     out |-> remove_dirs(
                [tree |-> IF dry_run THEN tree
                          ELSE {n \in tree : n.path \notin (targets.files \ bad)},
                 n |-> 0],
                targets.dirs, dry_run, bad, partial)]

\* the run of master_cleanup that has not happened
NoCleanup == [by |-> "nobody", yes |-> FALSE, code |-> 0, before |-> {}, files |-> {},
              dirs |-> <<>>, deleted |-> FALSE, removed_files |-> 0, removed_dirs |-> 0]

\* main, lines 150-172, once collect_targets has returned targets
cleanup_targets(tree, targets, by, yes, bad, partial) ==
    IF targets.files = {} /\ targets.dirs = <<>>
    THEN [tree |-> tree,
          run |-> [NoCleanup EXCEPT !.by = by, !.yes = yes, !.before = tree]]
    ELSE CHOOSE out \in
            {[tree |-> d.out.tree,
              run |-> [by |-> by, yes |-> yes, code |-> 0, before |-> tree,
                       files |-> targets.files, dirs |-> targets.dirs, deleted |-> TRUE,
                       removed_files |-> d.removed_files, removed_dirs |-> d.out.n]] :
                d \in {perform_deletions(tree, targets, ~yes, bad, partial)}} : TRUE

\* master_cleanup.main as a function of the tree: the record of the run and the tree
\* it leaves
cleanup_main(target, tree, by, yes, bad, partial) ==
    IF ~target
    THEN [tree |-> tree, run |-> [NoCleanup EXCEPT !.by = by, !.yes = yes, !.code = 2]]
    ELSE CHOOSE out \in
            {cleanup_targets(tree, t, by, yes, bad, partial) :
                t \in {collect_targets(tree)}} : TRUE

\* the paths on which a removal can fail: none, a file, or a directory
BadPaths == {{}, {<<NLicense>>}, {<<NDeviceTypes, NTests>>}}

CleanIdle ==
    /\ clean_target = FALSE
    /\ clean_tree = {}
    /\ clean_run = NoCleanup

CleanInit ==
    /\ clean_target \in BOOLEAN
    /\ clean_tree \in (IF clean_target THEN Trees ELSE {{}})
    /\ clean_run = NoCleanup

\* python master_cleanup.py [--yes] from the command line
Cleanup(yes, bad, partial) ==
    /\ clean_run.by = "nobody"
    /\ \E out \in {cleanup_main(clean_target, clean_tree, "user", yes, bad, partial)} :
          /\ clean_tree' = out.tree
          /\ clean_run' = out.run
    /\ UNCHANGED <<clean_target, modvars, rackvars, slugvars, orchvars, menuvars>>

\* ------------------------------------------------------ main.py
\* the list scripts of main
SCRIPTS == <<"master_cleanup.py", "netbox_manufacturer.py", "netbox_rack.py",
             "netbox_device.py", "netbox_module.py">>

\* run_script, lines 25-30: the arguments after the interpreter and the script name
script_args(script_name) == IF script_name = "master_cleanup.py" THEN <<"--yes">> ELSE <<>>

\* a break that is never taken
goes_on(log, code) == IF Len(log) = Len(SCRIPTS) THEN "done" ELSE "running"

\* main, lines 66-71: where the loop stands after run_script returned for the last
\* entry of log, whose exit code is code
after_script(log, code) ==
    IF code # 0 THEN "stopped"
    ELSE IF Len(log) = Len(SCRIPTS) THEN "done"
    ELSE "running"

OrchIdle ==
    /\ orch_pc = "idle"
    /\ orch_log = <<>>

\* python main.py
MainStart ==
    /\ orch_pc = "idle"
    /\ orch_pc' = "running"
    /\ UNCHANGED <<orch_log, modvars, rackvars, slugvars, cleanvars, menuvars>>

\* run_script on master_cleanup.py: the child runs master_cleanup.main with the
\* arguments of the command and exits with what it returns
RunCleanupScript(bad, partial) ==
    /\ orch_pc = "running"
    /\ SCRIPTS[Len(orch_log) + 1] = "master_cleanup.py"
    /\ \E out \in {cleanup_main(clean_target, clean_tree, "main.py",
                                 \E i \in DOMAIN script_args("master_cleanup.py") :
                                     script_args("master_cleanup.py")[i] = "--yes",
                                 bad, partial)} :
          /\ clean_tree' = out.tree
          /\ clean_run' = out.run
          /\ orch_log' = Append(orch_log, [script |-> "master_cleanup.py",
                                           args |-> script_args("master_cleanup.py"),
                                           code |-> out.run.code])
          /\ orch_pc' = after_script(orch_log', out.run.code)
    /\ UNCHANGED <<clean_target, modvars, rackvars, slugvars, menuvars>>

\* run_script on one of the other scripts: the child exits with code
RunScript(code) ==
    /\ orch_pc = "running"
    /\ SCRIPTS[Len(orch_log) + 1] # "master_cleanup.py"
    /\ orch_log' = Append(orch_log, [script |-> SCRIPTS[Len(orch_log) + 1],
                                     args |-> script_args(SCRIPTS[Len(orch_log) + 1]),
                                     code |-> code])
    /\ orch_pc' = after_script(orch_log', code)
    /\ UNCHANGED <<modvars, rackvars, slugvars, cleanvars, menuvars>>

\* run_script raises something else than CalledProcessError before the child runs
\* (the log file cannot be opened, the interpreter cannot be started): main ends
\* with the exception
MainRaises ==
    /\ orch_pc = "running"
    /\ orch_pc' = "raised"
    /\ UNCHANGED <<orch_log, modvars, rackvars, slugvars, cleanvars, menuvars>>

\* ------------------------------------- device_type_tracker.py, module_type_tracker.py
\* The two trackers have the same code but for the names and for print_summary; the
\* ledger of the device tracker is kept under the same field as the module tracker's.
\* print_summary: the percentage printed, in tenths of a percent.  The device tracker
\* divides by total_files as it is (line 160), the module tracker prints 0 when
\* total_files is 0 (line 162)
print_summary(kind, ld) ==
    IF ld.total_files = 0
    THEN [raised |-> kind = "device", progress |-> 0]
    ELSE [raised |-> FALSE,
          progress |-> ((ld.processed_count + ld.failed_count
                            + count_status(ld.module_types, "skipped")) * 1000)
                       \div ld.total_files]

\* reset_progress: the answer is confirmed when its lower case is "yes"; the file is
\* removed when it exists and the ledger is loaded anew.  m is [ld, dk]
reset_progress(m, response, now) ==
    IF lower(response) = <<"y", "e", "s">>
    THEN [ld |-> load_progress([state |-> "missing"], now), dk |-> [state |-> "missing"]]
    ELSE m

\* what the operator can type at "Are you sure you want to reset all progress?"
Responses == {<<"y", "e", "s">>, <<"Y", "e", "s">>, <<"n", "o">>, <<"y">>, <<>>}

\* a tracking file written by an earlier run over P1 and P2, P1 created and P2 failed
EarlierLedger ==
    mark_as_failed(
        mark_as_created([ld |-> scan_items(load_progress([state |-> "missing"], 0), {P1, P2}),
                         dk |-> [state |-> "missing"], marks |-> <<>>],
                        P1, 1, 0, TRUE),
        P2, "Failed to create", 0, TRUE).dk

NoOption == [choice |-> "", response |-> <<>>, raised |-> FALSE, progress |-> 0,
             ld |-> load_progress([state |-> "missing"], 0), dk |-> [state |-> "missing"]]

MenuIdle ==
    /\ menu_kind = "module"
    /\ menu_files = {}
    /\ menu_disk = [state |-> "missing"]
    /\ menu_data = load_progress([state |-> "missing"], 0)
    /\ menu_pc = "idle"
    /\ menu_last = NoOption

MenuInit ==
    /\ menu_kind \in {"device", "module"}
    /\ menu_files \in SUBSET {P1, P2, P3}
    /\ menu_disk \in {[state |-> "missing"], EarlierLedger}
    /\ menu_data = load_progress([state |-> "missing"], 0)
    /\ menu_pc = "idle"
    /\ menu_last = NoOption

\* main up to the menu: the tracker is built (load_progress) and scans; without files
\* the scan returns False and main returns
TrackerStart(ok) ==
    /\ menu_pc = "idle"
    /\ IF menu_files = {}
       THEN /\ menu_pc' = "no_scan"
            /\ menu_data' = load_progress(menu_disk, 1)
            /\ UNCHANGED menu_disk
       ELSE \E st \in {save_progress([ld |-> scan_items(load_progress(menu_disk, 1),
                                                        menu_files),
                                       dk |-> menu_disk], 1, ok)} :
                /\ menu_data' = st.ld
                /\ menu_disk' = st.dk
                /\ menu_pc' = "menu"
    /\ UNCHANGED <<menu_kind, menu_files, menu_last, modvars, rackvars, slugvars, cleanvars,
                   orchvars>>

\* option 1: print_summary; an exception leaves main
ShowSummary ==
    /\ menu_pc = "menu"
    /\ menu_last' = [choice |-> "1", response |-> <<>>,
                     raised |-> print_summary(menu_kind, menu_data).raised,
                     progress |-> print_summary(menu_kind, menu_data).progress,
                     ld |-> menu_data, dk |-> menu_disk]
    /\ menu_pc' = IF print_summary(menu_kind, menu_data).raised THEN "raised" ELSE "menu"
    /\ UNCHANGED <<menu_kind, menu_files, menu_disk, menu_data, modvars, rackvars, slugvars,
                   cleanvars, orchvars>>

\* options 2 and 3 and an invalid option: lists are printed, nothing is written
ShowList(choice) ==
    /\ menu_pc = "menu"
    /\ menu_last' = [choice |-> choice, response |-> <<>>, raised |-> FALSE, progress |-> 0,
                     ld |-> menu_data, dk |-> menu_disk]
    /\ UNCHANGED <<menu_kind, menu_files, menu_disk, menu_data, menu_pc, modvars, rackvars,
                   slugvars, cleanvars, orchvars>>

\* option 4: reset_progress; menu_last keeps the ledger and the file of before
ResetProgress(response) ==
    /\ menu_pc = "menu"
    /\ menu_data' = reset_progress([ld |-> menu_data, dk |-> menu_disk], response, 2).ld
    /\ menu_disk' = reset_progress([ld |-> menu_data, dk |-> menu_disk], response, 2).dk
    /\ menu_last' = [choice |-> "4", response |-> response, raised |-> FALSE, progress |-> 0,
                     ld |-> menu_data, dk |-> menu_disk]
    /\ UNCHANGED <<menu_kind, menu_files, menu_pc, modvars, rackvars, slugvars, cleanvars,
                   orchvars>>

\* option 5
MenuExit ==
    /\ menu_pc = "menu"
    /\ menu_pc' = "exited"
    /\ UNCHANGED <<menu_kind, menu_files, menu_disk, menu_data, menu_last, modvars, rackvars,
                   slugvars, cleanvars, orchvars>>

\* the tools beside the module-type and rack-type runs are at rest
ToolIdle == SlugIdle /\ CleanIdle /\ OrchIdle /\ MenuIdle

\* the module-type script at rest, untouched by the rack runs
ModIdle == ModInit /\ module_types = <<>>

Init == ModInit /\ RackIdle /\ ToolIdle

Next ==
    \/ \E p \in Paths : AddFile(p)
    \/ \E p \in Paths : RemoveFile(p)
    \/ LoadTracker
    \/ \E ok \in BOOLEAN : Scan(ok)
    \/ \E choice \in {"y", "n"} : Choose(choice)
    \/ \E p \in Paths, f \in Faults : ProcessNext(p, f)
    \/ \E p \in Paths, f \in StopPoints : Crash(p, f)
    \/ Finish
    \/ Interrupt

\* the runs of netbox_module.main
Spec == Init /\ [][Next]_vars

\* What one call of process_file can run into while it reconciles components:
\* nothing, reference lookups that raise, every template write rejected, a failing
\* write of the ledger file, lookups of existing objects that raise, the tags
\* endpoint raising, a rejected tag attach, every write of a module type rejected.
CompFaults == {"none", "ref", "tpl_write", "save", "find", "tags", "attach", "write"}

\* a module type that exists remotely under the id the definition c2 gives, with
\* another model and slug
OtherModel == [fields |-> [manufacturer |-> 1, model |-> <<"o">>, slug |-> <<"o">>],
               tags |-> <<>>]

\* a rear port of that module type, with the name of a rear port of the definition c2
OtherRear == [res |-> "rear_port_templates", module_type |-> 1, name |-> <<"R">>,
              f |-> [name |-> [t |-> "str", v |-> <<"R">>],
                     label |-> [t |-> "str", v |-> <<"o">>]]]

\* a tag with the marker's slug under another name
OtherTag == [name |-> <<"O", "K">>, slug |-> ValidSlug, color |-> "9e9e9e"]

InitComp ==
    /\ files = CompPaths
    /\ disk = [state |-> "missing", data |-> NoLedger]
    /\ progress_data = NoLedger
    /\ pc = "idle"
    /\ run = 0
    /\ mode = "none"
    /\ todo = {}
    /\ done = {}
    /\ loaded = [p \in {} |-> "pending"]
    /\ module_types \in {<<>>, <<OtherModel>>}
    /\ tags \in {<<>>, <<OtherTag>>}
    /\ templates = IF module_types = <<>> THEN <<>> ELSE <<OtherRear>>
    /\ last = NoCall
    /\ fs_changes = 0
    /\ faults = 0
    /\ crashed = {}
    /\ RackIdle
    /\ ToolIdle

NextComp ==
    \/ LoadTracker
    \/ \E ok \in BOOLEAN : Scan(ok)
    \/ \E choice \in {"y", "n"} : Choose(choice)
    \/ \E p \in CompPaths, f \in CompFaults : ProcessNext(p, f)
    \/ Finish
    \/ Interrupt

\* Between two runs the tracking file is damaged from outside (a write cut short, a
\* disk fault, a change of permissions)
DamageFile(kind) ==
    /\ pc = "idle" /\ disk.state = "ok"
    /\ disk' = [state |-> kind, data |-> NoLedger]
    /\ UNCHANGED <<files, progress_data, pc, run, mode, todo, done, loaded, module_types, tags,
                   templates, last, fs_changes, faults>>
    /\ UNCHANGED <<crashed, rackvars, toolvars>>

\* runs over two definitions, with a tracking file that can be damaged between runs
InitLoad ==
    /\ files = {P1, P2}
    /\ disk = [state |-> "missing", data |-> NoLedger]
    /\ progress_data = NoLedger
    /\ pc = "idle"
    /\ run = 0
    /\ mode = "none"
    /\ todo = {}
    /\ done = {}
    /\ loaded = [p \in {} |-> "pending"]
    /\ module_types = <<PreExisting>>
    /\ tags = <<>>
    /\ templates = <<>>
    /\ last = NoCall
    /\ fs_changes = MaxFsChanges
    /\ faults = 0
    /\ crashed = {}
    /\ RackIdle
    /\ ToolIdle

NextLoad ==
    \/ LoadTracker
    \/ \E ok \in BOOLEAN : Scan(ok)
    \/ \E choice \in {"y", "n"} : Choose(choice)
    \/ \E p \in {P1, P2}, f \in {"none", "save"} : ProcessNext(p, f)
    \/ Finish
    \/ Interrupt
    \/ \E kind \in DamagedStates : DamageFile(kind)

SpecLoad == InitLoad /\ [][NextLoad]_vars

\* the runs of netbox_module.main over definitions with component sections
SpecComp == InitComp /\ [][NextComp]_vars

InitRack == ModIdle /\ RackInit /\ ToolIdle

NextRack ==
    \/ \E ok \in BOOLEAN : RackStart(ok)
    \/ \E p \in RackPaths, f \in RackFaults : RackProcess(p, f)
    \/ RackFinish

\* the runs of netbox_rack.main
SpecRack == InitRack /\ [][NextRack]_vars

InitSlug == ModIdle /\ RackIdle /\ SlugInit /\ CleanIdle /\ OrchIdle /\ MenuIdle

NextSlug ==
    \/ Slugify
    \/ SlugifyAgain

\* slugify applied to every name of the enumeration
SpecSlug == InitSlug /\ [][NextSlug]_vars

InitClean == ModIdle /\ RackIdle /\ SlugIdle /\ CleanInit /\ OrchIdle /\ MenuIdle

NextClean ==
    \E yes, partial \in BOOLEAN : \E bad \in BadPaths : Cleanup(yes, bad, partial)

\* one run of master_cleanup over every tree
SpecClean == InitClean /\ [][NextClean]_vars

InitMain == ModIdle /\ RackIdle /\ SlugIdle /\ CleanInit /\ OrchIdle /\ MenuIdle

NextMain ==
    \/ MainStart
    \/ \E partial \in BOOLEAN : \E bad \in BadPaths : RunCleanupScript(bad, partial)
    \/ \E code \in {0, 1} : RunScript(code)
    \/ MainRaises

\* one run of main.py over every tree
SpecMain == InitMain /\ [][NextMain]_vars

InitMenu == ModIdle /\ RackIdle /\ SlugIdle /\ CleanIdle /\ OrchIdle /\ MenuInit

NextMenu ==
    \/ \E ok \in BOOLEAN : TrackerStart(ok)
    \/ ShowSummary
    \/ \E choice \in {"2", "3", "x"} : ShowList(choice)
    \/ \E response \in Responses : ResetProgress(response)
    \/ MenuExit

\* the command-line menus of the two trackers
SpecMenu == InitMenu /\ [][NextMenu]_vars



\* ===================================================================== claims
\* what the claims read of a run
Items == progress_data.module_types
CompletedAtLoad == {p \in DOMAIN loaded : loaded[p] # "pending"}
FailedAtLoad == {p \in DOMAIN loaded : loaded[p] = "failed"}
Worklist == todo \cup done
Writes(ops) == {i \in DOMAIN ops : ops[i] \in {"module_types.create", "module_types.update"}}

\* C1 as stated: in a rerun that loaded the persisted ledger, no item that the ledger
\* held as created, failed or skipped is handed to process_file again.
C1_NoCompletedItemReprocessed ==
    pc = "running" => Worklist \cap CompletedAtLoad = {}

\* C1 amended: in a rerun in which the operator answers y (process only pending), the
\* items the run processes are exactly the M - N items of the ledger that were not
\* marked in the persisted ledger (N marked of M registered), and no item that was
\* marked created, failed or skipped is handed to process_file.
C1_PendingOnlyRunResumes ==
    (pc = "running" /\ mode = "pending") =>
        /\ Worklist = (DOMAIN Items) \ CompletedAtLoad
        /\ Cardinality(Worklist) = Cardinality(DOMAIN Items) - Cardinality(CompletedAtLoad)
        /\ done \cap CompletedAtLoad = {}

\* a second run, answered y, after a first run that was stopped with some items marked
\* and some not, has processed one of the unmarked items
C1_Witness ==
    /\ pc = "running" /\ mode = "pending" /\ run = 2
    /\ CompletedAtLoad # {}
    /\ done # {}
    /\ \E p \in DOMAIN loaded : loaded[p] = "pending"

\* C5 as stated: in the ledger in memory and in the persisted ledger, processed_count
\* is the number of items with status created and failed_count the number with
\* status failed.
CountsAgree(ld) ==
    /\ ld.processed_count = count_status(ld.module_types, "created")
    /\ ld.failed_count = count_status(ld.module_types, "failed")

C5_CountsMatchStatuses ==
    /\ pc # "idle" => CountsAgree(progress_data)
    /\ disk.state = "ok" => CountsAgree(disk.data)

\* C6 as stated: a call of process_file changes the status of its item exactly once,
\* from pending to created, failed or skipped.
C6_MarkedOncePerRun ==
    last.path # "" => (Len(last.marks) = 1 /\ last.pre = "pending")

\* C3 as stated: when the manufacturer of a definition is found neither by name nor
\* by slug, the item ends failed with a non-empty message and no module type is
\* created for it.
C3_ManufacturerGating ==
    (last.path # "" /\ \E i \in DOMAIN last.results : last.results[i].r = "no_manufacturer") =>
        /\ Items[last.path].status = "failed"
        /\ Items[last.path].error_message \notin {NoMsg, ""}
        /\ \A i \in DOMAIN last.ops : last.ops[i] # "module_types.create"

\* C2 as stated: a definition that an earlier pass reconciled (its item was marked
\* created) and that is reconciled again without any fault yields no remote create and
\* no remote update.
C2_SecondPassWritesNothing ==
    (last.path # "" /\ last.pre = "created" /\ last.fault = "none") => Writes(last.ops) = {}

\* C4 as stated: after a call without fault, every module type it created or updated
\* holds the marker tag exactly once.
ValidTagIds == {i \in DOMAIN tags : tags[i].name = ValidName}
MarkerCount(tag_ids) == Cardinality({j \in DOMAIN tag_ids : tag_ids[j] \in ValidTagIds})

C4_MarkerTagExactlyOnce ==
    (last.path # "" /\ last.fault = "none") =>
        \A i \in DOMAIN last.results :
            last.results[i].r \in {"created", "updated"} =>
                MarkerCount(module_types[last.results[i].id].tags) = 1

\* C7 as stated: a run that processes the pending items only (the resumed run)
\* processes every item that the loaded ledger held as failed.
C7_ResumedRunRetriesFailed ==
    (pc = "running" /\ mode = "pending") => FailedAtLoad \subseteq Worklist

\* C7 amended: an item marked failed stays failed in the ledger; the run that
\* processes the pending items only never processes it, and it is processed again
\* only by a run that processes every file found (while its file is still there).
C7_FailedRetriedOnlyByFullRun ==
    pc = "running" =>
        /\ mode = "pending" => FailedAtLoad \cap Worklist = {}
        /\ mode = "all" => (FailedAtLoad \cap files) \subseteq Worklist

\* a pending-only run that has processed an item while the ledger it loaded held a
\* failed one
C7_Witness ==
    /\ pc = "running" /\ mode = "pending"
    /\ FailedAtLoad # {}
    /\ done # {}

\* C8: a scan keeps every registered item as it is and registers every new path as
\* pending with no error, no timestamp and no remote id; and between two steps of a
\* run no operation removes an item from the ledger.
C8_ScanKeepsProgress ==
    [][ /\ (pc = "loaded" /\ pc' = "scanned") =>
              /\ DOMAIN progress_data'.module_types = (DOMAIN Items) \cup files
              /\ \A p \in DOMAIN Items : progress_data'.module_types[p] = Items[p]
              /\ \A p \in files \ DOMAIN Items :
                    LET e == progress_data'.module_types[p]
                    IN  /\ e.status = "pending" /\ e.error_message = NoMsg
                        /\ e.created_at = NoId /\ e.netbox_id = NoId
        /\ (pc # "idle" /\ pc' # "idle") =>
              (DOMAIN Items) \subseteq DOMAIN progress_data'.module_types
      ]_vars

\* a scan has just run on a ledger that held a finished item and has registered a
\* path that was not in it
C8_Witness ==
    /\ pc = "scanned"
    /\ CompletedAtLoad # {}
    /\ (DOMAIN Items) \ (DOMAIN loaded) # {}

\* what the claims read of a rack run
RackWrites(ops) ==
    {i \in DOMAIN ops : ops[i] \in {"rack_types.create", "rack_types.update", "rack_types.save"}}
TagsOf(rec) == Elems(get(rec.fields, "tags", <<>>))

\* C9 as stated: a failure met while one definition is processed stays with that
\* definition: whenever a rack run has ended, every definition it found has been
\* handed to process_file.
C9_RunProcessesEveryDefinition ==
    rack_pc \in {"done", "aborted"} => rack_todo = {}

\* C10 as stated: after a call of the rack process_file that had the marker tag at hand
\* and met no fault, every rack type that existed before the call still holds every tag
\* it held before the call (attaching the marker leaves the other remote tags in place).
C10_AttachKeepsOtherTags ==
    (rack_last.path # "" /\ rack_last.fault = "none" /\ valid_tag # NoId) =>
        \A i \in DOMAIN rack_last.pre : TagsOf(rack_last.pre[i]) \subseteq TagsOf(rack_types[i])

\* ------------------------------------------- component templates: what the claims read
\* the entries of the trace of the last process_file call
Trace == last.trace
Handled == {"created", "updated", "skipped"}
RearOf(e) == str_of(e.item["rear_port"])

\* entry j is the rear port that the front port of entry i names
NamesRearPort(i, j) ==
    /\ Trace[i].res = "front_port_templates"
    /\ "rear_port" \in DOMAIN Trace[i].item
    /\ Trace[j].res = "rear_port_templates"
    /\ Trace[j].mt = Trace[i].mt
    /\ "name" \in DOMAIN Trace[j].item
    /\ str_of(Trace[j].item["name"]) = RearOf(Trace[i])

\* C11 as stated: after a call that met no fault, a front port that names a rear port
\* of its own document (whose rear-ports section comes after the front-ports section)
\* and that rear port are both handled without error, and the front-port request
\* carries the id of the rear-port template of that name under the module type.
C11_FrontPortGetsRearPortId ==
    last.fault = "none" =>
        \A i, j \in DOMAIN Trace :
            NamesRearPort(i, j) =>
                /\ Trace[i].ret.status \in Handled
                /\ Trace[j].ret.status \in Handled
                /\ Trace[i].ret.payload["rear_port"].t = "int"
                /\ Trace[i].ret.payload["rear_port"].v \in
                       templates_named(templates, "rear_port_templates", Trace[i].mt,
                                       RearOf(Trace[i]))

\* kind b refers to kind a
RefersTo(b, a) ==
    \/ b = "front_port_templates" /\ a = "rear_port_templates"
    \/ b = "power_outlet_templates" /\ a = "power_port_templates"

\* C12: within the trace of one call, every item of a kind that is referred to comes
\* before every item of the kind that refers to it, for the same module type (all
\* rear ports before any front port, all power ports before any power outlet).
C12_ReferencedKindsFirst ==
    \A i, j \in DOMAIN Trace :
        (Trace[i].mt = Trace[j].mt /\ RefersTo(Trace[j].res, Trace[i].res)) => i < j

\* a call has handled the document whose front-ports and power-outlets sections come
\* before its rear-ports and power-ports sections
C12_Witness ==
    /\ last.path = P5
    /\ \E i, j \in DOMAIN Trace : RefersTo(Trace[j].res, Trace[i].res)
                                   /\ Trace[j].res = "front_port_templates"
    /\ \E i, j \in DOMAIN Trace : RefersTo(Trace[j].res, Trace[i].res)
                                   /\ Trace[j].res = "power_outlet_templates"

\* ------------------------------------------- persistence of the ledger
\* the status the last mark_as_* call of the last process_file call has set
LastMark == last.marks[Len(last.marks)]

\* a step that is a process_file call of the running run
ProcessStep == done' # done /\ done' # {}

\* C13: between two items of a run, after a process_file call that marked its item
\* and whose file writes succeeded, the tracking file holds exactly the in-memory
\* ledger, and in it the item has the terminal status it was given.
C13_MarksArePersisted ==
    (pc = "running" /\ last.path # "" /\ last.marks # <<>> /\ last.fault # "save") =>
        /\ disk = [state |-> "ok", data |-> progress_data]
        /\ disk.data.module_types[last.path].status = LastMark
        /\ LastMark \in Statuses \ {"pending"}

\* a run stands between two items, the first of them marked and written
C13_Witness ==
    /\ pc = "running" /\ todo # {}
    /\ last.path # "" /\ last.marks # <<>> /\ last.fault # "save"
    /\ disk.state = "ok"

\* C14: a process_file call whose ledger writes fail leaves the run running and the
\* tracking file as it was, the in-memory ledger holds the status the call has set,
\* and every call of the run leaves the in-memory entries of the other items as they
\* were in memory before it (nothing is read back from the file).
C14_FailedWriteKeepsMemory ==
    [][ProcessStep =>
          /\ (last'.fault = "save" /\ last'.marks # <<>>) =>
                /\ pc' = "running"
                /\ disk' = disk
                /\ progress_data'.module_types[last'.path].status =
                       last'.marks[Len(last'.marks)]
          /\ \A q \in (DOMAIN progress_data.module_types) \ {last'.path} :
                progress_data'.module_types[q] = progress_data.module_types[q]
      ]_vars

\* a call whose writes failed has marked its item, the tracking file still holds the
\* item's earlier status, and the run has further items to process
C14_Witness ==
    /\ pc = "running" /\ todo # {}
    /\ last.fault = "save" /\ last.marks # <<>>
    /\ disk.state = "ok"
    /\ disk.data.module_types[last.path].status # progress_data.module_types[last.path].status

\* C15 as stated: every load of the ledger ends with a ledger in hand, the persisted
\* one when the file is there and readable and a fresh empty one otherwise; no load
\* raises.
C15_LoadFailsSoft ==
    [][run' # run =>
          /\ pc' = "loaded"
          /\ progress_data' = IF disk.state = "ok" THEN disk.data
                              ELSE [NoLedger EXCEPT !.created_at = run', !.last_updated = run']
      ]_vars

\* ------------------------------------------- lookup and order of the remote writes
\* the first document of the file the last call has processed
DocOf(p) == safe_load(p).docs[1]
TemplateWrites == {"templates.create", "templates.update"}
ParentWrites == {"module_types.create", "module_types.update"}

\* C16 as stated, for module types: a fault-free call for a definition that carries an
\* explicit id held by a remote module type settles on that module type (the id is
\* tried before the slug and before model and manufacturer) and updates it.
C16_ExplicitIdFirst ==
    [][(/\ ProcessStep
        /\ last'.fault = "none"
        /\ safe_load(last'.path).docs # <<>>
        /\ "id" \in DOMAIN DocOf(last'.path)
        /\ DocOf(last'.path)["id"] \in DOMAIN module_types) =>
            last'.results = <<[r |-> "updated", id |-> DocOf(last'.path)["id"]]>>
      ]_vars

\* C17 as stated: among the remote writes of a call for one definition, the write of
\* the parent comes before every sub-template write, and every sub-template write
\* comes before the write that attaches the marker tag.
C17_ParentComponentsThenTag ==
    \A i, j \in DOMAIN last.ops :
        /\ (last.ops[i] \in ParentWrites /\ last.ops[j] \in TemplateWrites) => i < j
        /\ (last.ops[i] \in TemplateWrites /\ last.ops[j] = "module_types.update_tags") => i < j

\* ------------------------------------------- references between sub-templates
\* the reference an entry of the trace carries, the kind it points to and how the
\* call resolved it
RefKey(e) == IF e.res = "front_port_templates" THEN "rear_port" ELSE "power_port"
RefKind(e) == IF e.res = "front_port_templates" THEN "rear_port_templates"
              ELSE "power_port_templates"
HasRef(e) ==
    /\ e.res \in {"front_port_templates", "power_outlet_templates"}
    /\ RefKey(e) \in DOMAIN e.item
RefName(e) == str_of(e.item[RefKey(e)])
How(e) == IF e.res = "front_port_templates" THEN e.ret.rear ELSE e.ret.power

\* the name that entry i refers to was put into created_map by an earlier entry
InCache(i) ==
    \E j \in 1..(i - 1) :
        /\ Trace[j].cached
        /\ Trace[j].res = RefKind(Trace[i])
        /\ Trace[j].mt = Trace[i].mt
        /\ str_of(Trace[j].item["name"]) = RefName(Trace[i])

\* the name that entry i refers to is held remotely under the module type
HeldRemotely(i) ==
    templates_named(templates, RefKind(Trace[i]), Trace[i].mt, RefName(Trace[i])) # {}

\* C18 as stated: in a call that met no fault, every item created or updated is put
\* into the cache, and a reference is resolved from the cache when its name is there
\* and otherwise by the lookup by name under the module type (which finds it or not).
C18_CacheThenScopedLookup ==
    last.fault = "none" =>
        \A i \in DOMAIN Trace :
            /\ Trace[i].ret.status \in {"created", "updated"} => Trace[i].cached
            /\ HasRef(Trace[i]) =>
                  How(Trace[i]) = IF InCache(i) THEN "cache"
                                  ELSE IF HeldRemotely(i) THEN "remote" ELSE "unresolved"

\* the items a document lists in its sections
ItemsOf(doc) ==
    UNION {{<<s, k>> : k \in DOMAIN doc["sections"][s].items} : s \in DOMAIN doc["sections"]}

\* C19: when the rear port a front port names is found neither in the cache nor
\* remotely, that front port ends with an error, every item of the document is still
\* processed and the others end without error, the parent is created or updated, and
\* the item of the ledger is marked created.
C19_UnresolvedReferenceIsolated ==
    \A i \in DOMAIN Trace :
        (last.fault \in {"none", "save"} /\ Trace[i].ret.rear = "unresolved") =>
            /\ Trace[i].ret.status = "error"
            /\ Len(Trace) = Cardinality(ItemsOf(DocOf(last.path)))
            /\ \A j \in DOMAIN Trace :
                  (How(Trace[j]) \notin {"unresolved", "literal"}) =>
                      Trace[j].ret.status \in Handled
            /\ last.results # <<>>
            /\ last.results[1].r \in {"created", "updated"}
            /\ last.ops[1] \in ParentWrites \cup {"tags.create"}
            /\ LastMark = "created"

\* a call has met a front port whose rear port exists nowhere, among other items
C19_Witness ==
    /\ last.fault = "none"
    /\ \E i, j \in DOMAIN Trace :
          /\ i < j
          /\ Trace[i].ret.rear = "unresolved"
          /\ Trace[j].ret.status \in {"created", "updated"}

\* the manufacturer an inventory item names is unknown remotely
UnknownManufacturer(e) ==
    /\ e.res = "inventory_item_templates"
    /\ "manufacturer" \in DOMAIN e.item
    /\ e.item["manufacturer"].t = "str"
    /\ ensure_manufacturer(Manufacturers, e.item["manufacturer"].v, FALSE) = NoId

\* C20 as stated: in a call that met no fault, a power outlet whose power port is found
\* nowhere, and an inventory item whose manufacturer is unknown, are sent without that
\* key and end without error; a front port whose rear port is found nowhere ends with
\* an error and no request is issued for it.
C20_OptionalDroppedRequiredFails ==
    last.fault = "none" =>
        \A i \in DOMAIN Trace :
            /\ (HasRef(Trace[i]) /\ RefKey(Trace[i]) = "power_port"
                /\ ~InCache(i) /\ ~HeldRemotely(i)) =>
                    /\ "power_port" \notin DOMAIN Trace[i].ret.payload
                    /\ Trace[i].ret.status \in Handled
            /\ UnknownManufacturer(Trace[i]) =>
                    /\ "manufacturer" \notin DOMAIN Trace[i].ret.payload
                    /\ Trace[i].ret.status \in Handled
            /\ (HasRef(Trace[i]) /\ RefKey(Trace[i]) = "rear_port"
                /\ ~InCache(i) /\ ~HeldRemotely(i)) =>
                    /\ Trace[i].ret.status = "error"
                    /\ Trace[i].ret.sent = <<>>

\* ------------------------------------------- reconciling one sub-template
\* entry i is the first of the call's trace for its kind, module type and name, so
\* what it met remotely is what the remote system held before the call
FirstTouch(i) ==
    /\ "name" \in DOMAIN Trace'[i].item
    /\ \A j \in 1..(i - 1) :
          ~(/\ Trace'[j].res = Trace'[i].res
            /\ Trace'[j].mt = Trace'[i].mt
            /\ "name" \in DOMAIN Trace'[j].item
            /\ str_of(Trace'[j].item["name"]) = str_of(Trace'[i].item["name"]))

\* the templates of the kind, module type and name of entry i before the call
MatchesBefore(i) ==
    templates_named(templates, Trace'[i].res, Trace'[i].mt, str_of(Trace'[i].item["name"]))

\* the number of update requests among the requests of an entry
Updates(sent) == Cardinality({k \in DOMAIN sent : sent[k] = "update"})

\* C21: in a call that met no fault, an item whose reference did not fail is matched
\* with the template of its kind, name and module type only: with none, one create is
\* issued and nothing else; with one whose fields are those of the payload, the result
\* is skipped and nothing is sent; with one that differs, the first request is an
\* update, the only one, and it is that template which a successful update changes.
\* Templates of module types the call does not handle are left as they were.
C21_MatchByNameAndParent ==
    [][(ProcessStep /\ last'.fault = "none") =>
          /\ \A i \in DOMAIN Trace' :
                (FirstTouch(i) /\ Trace'[i].ret.rear # "unresolved") =>
                    IF MatchesBefore(i) = {}
                    THEN Trace'[i].ret.sent = <<"create">>
                    ELSE IF ~needs_update(templates[Min(MatchesBefore(i))].f,
                                          pop(Trace'[i].ret.payload, "module_type"))
                    THEN /\ Trace'[i].ret.status = "skipped"
                         /\ Trace'[i].ret.sent = <<>>
                         /\ Trace'[i].ret.info = Min(MatchesBefore(i))
                    ELSE /\ Trace'[i].ret.sent[1] = "update"
                         /\ Updates(Trace'[i].ret.sent) = 1
                         /\ Trace'[i].ret.status = "updated" =>
                               Trace'[i].ret.info = Min(MatchesBefore(i))
          /\ \A t \in DOMAIN templates :
                (\A i \in DOMAIN Trace' : Trace'[i].mt # templates[t].module_type) =>
                    templates'[t] = templates[t]
      ]_vars

\* a call has created a rear port whose name a rear port of another module type
\* carries, and has updated a template that one of its own items had created
C21_Witness ==
    /\ last.fault = "none"
    /\ \E i \in DOMAIN Trace, t \in DOMAIN templates :
          /\ Trace[i].ret.status = "created"
          /\ templates[t].res = Trace[i].res
          /\ templates[t].name = str_of(Trace[i].item["name"])
          /\ templates[t].module_type # Trace[i].mt
    /\ \E i \in DOMAIN Trace : Trace[i].ret.status = "updated"

\* C22 as stated: no item of a call has a second request sent for it (a request that
\* the remote system rejects ends the item with an error), and a call that has the
\* write of its module type rejected issues no remote write for it.
C22_NoSecondRequest ==
    /\ \A i \in DOMAIN Trace : Len(Trace[i].ret.sent) <= 1
    /\ last.fault = "write" =>
          \A k \in DOMAIN last.ops : last.ops[k] \notin ParentWrites \cup TemplateWrites

\* the requests a call has issued to create an object: the creates of module types,
\* accepted or rejected, and the items for which a create of a template was sent
CreatesIssued ==
    {<<"module_type", k>> : k \in {k \in DOMAIN last.results :
                                      \/ last.results[k].r = "created"
                                      \/ last.results[k].r = "error" /\ last.results[k].id = NoId}}
    \cup {<<"template", i>> : i \in {i \in DOMAIN Trace :
                                      \E k \in DOMAIN Trace[i].ret.sent :
                                          Trace[i].ret.sent[k] = "create"}}

\* C23 as stated: a call in which the lookups of existing objects raised has
\* established of no object that it is absent, and issues no create.
C23_NoCreateAfterFailedLookup ==
    last.fault = "find" => CreatesIssued = {}

\* the remote system has rejected a create or an update of a module type in the call
ParentRejected == \E k \in DOMAIN last.results : last.results[k].r = "error"

\* C24 as stated: a call in which the remote system rejected the create or the update
\* of a module type leaves its item marked failed, with a message, has processed no
\* sub-template, and the run goes on.
C24_RejectedParentFailsItem ==
    (ParentRejected /\ pc = "running" /\ last.marks # <<>>) =>
        /\ LastMark = "failed"
        /\ progress_data.module_types[last.path].status = "failed"
        /\ progress_data.module_types[last.path].error_message # ""
        /\ Trace = <<>>

\* the file of the call held no document, or yaml.safe_load raised on it
EmptyOrUnparsable ==
    /\ last.path # ""
    /\ last.fault = "read" \/ safe_load(last.path).raw = "none"

\* C25 as stated: an item whose file is empty or cannot be parsed is marked skipped
\* by the call that handles it (neither failed nor left pending).
C25_InvalidDocumentSkipped ==
    EmptyOrUnparsable => (last.marks # <<>> /\ LastMark = "skipped")

\* the call met no fault and every definition of its file named a manufacturer that
\* is absent remotely
ManufacturerUnresolved ==
    /\ last.fault = "none"
    /\ last.results # <<>>
    /\ \A k \in DOMAIN last.results : last.results[k].r = "no_manufacturer"

\* C26 as stated: a call that finds the manufacturer of its item absent remotely has
\* issued no remote write of any kind.
C26_NoWriteOnUnresolvedManufacturer ==
    ManufacturerUnresolved => last.ops = <<>>

\* the remote tags whose slug is the marker's
MarkerTags == {i \in DOMAIN tags : tags[i].slug = ValidSlug}

\* C27 as stated, for netbox_module: at most one tag has the marker's slug, and a call
\* whose tags endpoint did not raise holds the identity of that tag.
C27_MarkerTagBySlug ==
    /\ Cardinality(MarkerTags) <= 1
    /\ (last.path # "" /\ last.fault # "tags") => \A i \in MarkerTags : last.vt = i

\* the entries of the trace that belong to the module type id
EntriesOf(id) == {i \in DOMAIN Trace : Trace[i].mt = id}

\* a call could not mark what it created: it obtained no marker tag, or the attach of
\* the marker was rejected
TaggingFailed == last.path # "" /\ (last.vt = NoId \/ last.fault = "attach")

\* C28: in a call that obtained no marker tag, or whose attach of the marker was
\* rejected, every module type the call created is held remotely (without the marker),
\* every item of its definition has been processed, and when it is the last definition
\* of the file the item is marked created.
C28_TaggingIsNotFatal ==
    TaggingFailed =>
        \A k \in DOMAIN last.results :
            last.results[k].r = "created" =>
                /\ last.results[k].id \in DOMAIN module_types
                /\ module_types[last.results[k].id].fields["model"]
                      = safe_load(last.path).docs[k]["model"]
                /\ module_types[last.results[k].id].tags = <<>>
                /\ Cardinality(EntriesOf(last.results[k].id))
                      = Cardinality(ItemsOf(safe_load(last.path).docs[k]))
                /\ k = Len(last.results) => LastMark = "created"

\* the attach of the marker was rejected for a module type that a call created, whose
\* items were processed and whose item is marked created
C28_Witness ==
    /\ last.fault = "attach" /\ last.vt # NoId
    /\ \E k \in DOMAIN last.results :
          /\ last.results[k].r = "created"
          /\ module_types[last.results[k].id].tags = <<>>
          /\ EntriesOf(last.results[k].id) # {}
    /\ LastMark = "created"

\* the allow-list of the kind of templates res
AllowedOf(res) ==
    UNION {COMPONENT_MAP(COMPONENT_KEYS[n]).allowed :
             n \in {n \in DOMAIN COMPONENT_KEYS : COMPONENT_MAP(COMPONENT_KEYS[n]).res = res}}

\* payload is what the allow-list leaves of the definition doc, with the id of a
\* manufacturer held remotely
PayloadOf(payload, doc) ==
    /\ DOMAIN payload = ((DOMAIN doc) \cap ALLOWED_FIELDS) \cup {"manufacturer"}
    /\ payload["manufacturer"] \in {m.id : m \in Manufacturers}
    /\ \A k \in (DOMAIN payload) \ {"manufacturer"} : payload[k] = doc[k]

BooleanKeys == {"mgmt_only"}
ReplacedKeys == {"rear_port", "power_port", "manufacturer", "position", "module_type"}

\* the text forms of false
IsFalseText(v) == v \in {<<"f", "a", "l", "s", "e">>, <<"n", "o">>, <<"0">>}

\* two values of a payload are the same: of the same type, and equal
SameValue(a, b) == a.t = b.t /\ a.v = b.v

\* C30 as stated, for the templates: in the payload of an item a boolean field written
\* as true, yes or 1 (in any case) is true, one written as false, no or 0 is false,
\* and every field that is no boolean holds the value the item gives.
C30_BooleansNormalised ==
    \A i \in DOMAIN Trace :
        \A k \in (DOMAIN Trace[i].ret.payload) \ ReplacedKeys :
            IF k \in BooleanKeys /\ Trace[i].item[k].t = "str"
            THEN /\ IsTrueText(lower(Trace[i].item[k].v)) =>
                       SameValue(Trace[i].ret.payload[k], TBool(TRUE))
                 /\ IsFalseText(lower(Trace[i].item[k].v)) =>
                       SameValue(Trace[i].ret.payload[k], TBool(FALSE))
            ELSE SameValue(Trace[i].ret.payload[k], Trace[i].item[k])

\* C33 as stated: after a scan total_files is the number of items the ledger holds
\* (the items created, failed, skipped and pending together), also when files that an
\* earlier run registered are gone from storage.
C33_TotalIsItemCount ==
    pc = "scanned" =>
        progress_data.total_files = Cardinality(DOMAIN progress_data.module_types)

\* the file of the call was opened and parsed, and the item was pending before
PendingItemProcessed ==
    /\ last.path # ""
    /\ last.pre = "pending"
    /\ last.path \in DOMAIN progress_data.module_types

\* C36 as stated: once process_file has returned for a pending item, the item is
\* created, failed or skipped, whatever the shape of the document (empty, a mapping,
\* a list, a value that is no mapping).
C36_ItemLeavesPending ==
    PendingItemProcessed => progress_data.module_types[last.path].status # "pending"

\* entry i of the trace is a front port for which a create or an update was issued
FrontPortSent(i) ==
    /\ Trace[i].res = "front_port_templates"
    /\ Trace[i].ret.sent # <<>>
    /\ "rear_port" \in DOMAIN Trace[i].ret.payload

\* C37 as stated: whenever a create or an update is issued for a front port, the
\* rear_port of the payload is the remote id of a rear-port template of the same module
\* type; a reference name, written as text or as a number, is never sent unresolved.
C37_RearPortSentResolved ==
    \A i \in DOMAIN Trace :
        FrontPortSent(i) =>
            reference_valid(templates, Trace[i].ret.payload, "rear_port",
                            "rear_port_templates", Trace[i].mt)

\* two remote module types that stand for one definition: the same slug, or the same
\* model under the same manufacturer
SameDefinition(a, b) ==
    \/ /\ "slug" \in DOMAIN a.fields /\ "slug" \in DOMAIN b.fields
       /\ a.fields["slug"] = b.fields["slug"]
    \/ /\ "model" \in DOMAIN a.fields /\ "model" \in DOMAIN b.fields
       /\ a.fields["model"] = b.fields["model"]
       /\ a.fields["manufacturer"] = b.fields["manufacturer"]

\* the results of the call that went as far as a write of a module type, in the order
\* of the payloads
WriteResults == SelectSeq(last.results, LAMBDA r : r.r # "no_manufacturer")

\* the call sent a create for a definition the remote system already held
CreateOfExisting ==
    \E k \in DOMAIN WriteResults :
        /\ WriteResults[k] = [r |-> "error", id |-> NoId]
        /\ "model" \in DOMAIN last.payloads[k]

\* C34 as stated: over any sequence of runs, a run killed between the remote create of
\* a module type and mark_as_created included, the remote system never holds two
\* module types for one definition, and a call whose lookups succeed finds the entity
\* and sends no create for it.
C34_NoDuplicateParent ==
    /\ \A i, j \in DOMAIN module_types :
          i # j => ~SameDefinition(module_types[i], module_types[j])
    /\ last.fault \notin {"lookup", "find", "write"} => ~CreateOfExisting

\* a rerun over a file whose call was killed after the create: the item was still
\* pending and the call updated the entity the killed call had left
C34_Witness ==
    /\ last.path \in crashed
    /\ last.pre = "pending"
    /\ last.fault = "none"
    /\ \E k \in DOMAIN last.results : last.results[k].r = "updated"
    /\ \A k \in DOMAIN last.results : last.results[k].r # "created"

\* the words of a name: the maximal runs of letters and digits, in lower case, an
\* ampersand counting as the letters "and"; w is the word being read
RECURSIVE WordsOf(_, _)
WordsOf(s, w) ==
    IF s = <<>> THEN (IF w = <<>> THEN <<>> ELSE <<w>>)
    ELSE IF Head(s) = "&" THEN WordsOf(Tail(s), w \o <<"a", "n", "d">>)
    ELSE IF IsLowerAlnum(lower_char(Head(s)))
    THEN WordsOf(Tail(s), Append(w, lower_char(Head(s))))
    ELSE (IF w = <<>> THEN <<>> ELSE <<w>>) \o WordsOf(Tail(s), <<>>)

\* the words with one hyphen between each two
RECURSIVE Hyphenated(_)
Hyphenated(ws) ==
    IF ws = <<>> THEN <<>>
    ELSE IF Len(ws) = 1 THEN ws[1]
    ELSE ws[1] \o <<"-">> \o Hyphenated(Tail(ws))

\* C31 as stated: slugify lowercases and trims the name, replaces '&' by 'and', each
\* run of other characters by one hyphen and trims the hyphens at both ends (the slug
\* of "Cisco & Co." is "cisco-and-co"); the slugify of the module, rack and
\* manufacturer scripts return the same result for every string.
C31_SlugNormalisation ==
    slug_pc \in {"done", "again"} =>
        /\ slug_out.module = Hyphenated(WordsOf(slug_name, <<>>))
        /\ slug_out.rack = slug_out.module
        /\ slug_out.manufacturer = slug_out.module
        /\ slug_name = CiscoAndCo =>
              slug_out.module = <<"c", "i", "s", "c", "o", "-", "a", "n", "d", "-", "c", "o">>

\* the three slugs of a name with an ampersand, white space at an end, capitals and
\* a run of two other characters
C31_Witness ==
    /\ slug_pc = "done"
    /\ slug_name = CiscoAndCo
    /\ slug_out.manufacturer = <<"c", "i", "s", "c", "o", "-", "a", "n", "d", "-", "c", "o">>

\* a text of lower-case letters, digits and hyphens that neither starts nor ends with
\* a hyphen and has no two hyphens in a row
SlugShaped(s) ==
    /\ \A i \in DOMAIN s : IsLowerAlnum(s[i]) \/ s[i] = "-"
    /\ s # <<>> => (s[1] # "-" /\ s[Len(s)] # "-")
    /\ \A i \in 1..(Len(s) - 1) : ~(s[i] = "-" /\ s[i + 1] = "-")

\* C39 as stated: for every string s, slugify(s) holds only a-z, 0-9 and '-', does not
\* start or end with '-', has no two consecutive hyphens, and
\* slugify(slugify(s)) = slugify(s).
C39_SlugShapeAndIdempotence ==
    /\ slug_pc \in {"done", "again"} =>
          (SlugShaped(slug_out.module) /\ SlugShaped(slug_out.rack))
    /\ slug_pc = "again" => slug_out.again = slug_out.module

\* slugify applied twice to a name with hyphens at both ends, a run of hyphens and
\* characters that are no letters inside; the slug keeps one inner hyphen
C39_Witness ==
    /\ slug_pc = "again"
    /\ slug_name = <<"-", "A", ".", "&">>
    /\ slug_out.again = <<"a", "-", "a", "n", "d">>

\* the directories the run listed, as a set
ListedDirs == {clean_run.dirs[i] : i \in DOMAIN clean_run.dirs}
\* the paths that were in the tree before the run and are gone after it
Gone == {n.path : n \in clean_run.before \ clean_tree}

\* C32 as stated: without --yes master_cleanup deletes no file and no directory (the
\* tree is unchanged, the removal counts are 0); with --yes it deletes only the files
\* and directories collect_targets returned (a directory with all below it); and
\* collect_targets lists nothing that lies inside a directory it lists.
C32_DryRunByDefault ==
    clean_run.by # "nobody" =>
        /\ clean_tree \subseteq clean_run.before \/ clean_run.code # 0
        /\ ~clean_run.yes =>
              /\ clean_tree = clean_run.before \/ clean_run.code # 0
              /\ clean_run.removed_files = 0 /\ clean_run.removed_dirs = 0
        /\ \A a \in Gone :
              \/ a \in clean_run.files
              \/ a \in ListedDirs
              \/ \E d \in ListedDirs : Below(a, d)
        /\ \A a \in clean_run.files \cup ListedDirs : \A d \in ListedDirs : ~Below(a, d)

\* a dry run over a tree in which a listed directory holds a hidden file and a
\* directory named like a listed one: both are left out of the lists, nothing is gone
C32_Witness ==
    /\ clean_run.by = "user" /\ ~clean_run.yes /\ clean_run.deleted
    /\ File(<<NDeviceTypes, NTests, NHidden>>) \in clean_tree
    /\ Dir(<<NGit, NImages>>) \in clean_tree
    /\ <<NDeviceTypes, NTests>> \in ListedDirs
    /\ clean_run.files # {}

\* a run with --yes that removed a listed directory with what lay below it
DeletedWithYes ==
    /\ clean_run.yes /\ clean_run.removed_dirs > 0 /\ clean_run.removed_files > 0
    /\ <<NDeviceTypes, NTests, NYml>> \in Gone

\* C35 as stated: main.py starts the scripts in the order master_cleanup.py (always
\* with --yes), netbox_manufacturer.py, netbox_rack.py, netbox_device.py,
\* netbox_module.py; a script is started only after every earlier script exited
\* successfully, and after the first script that exits with an error no later script
\* is started.
C35_OrchestrationOrder ==
    /\ Len(orch_log) <= Len(SCRIPTS)
    /\ \A i \in DOMAIN orch_log :
          /\ orch_log[i].script =
                <<"master_cleanup.py", "netbox_manufacturer.py", "netbox_rack.py",
                  "netbox_device.py", "netbox_module.py">>[i]
          /\ orch_log[i].script = "master_cleanup.py" =>
                (orch_log[i].args = <<"--yes">> /\ clean_run.by = "main.py" /\ clean_run.yes)
          /\ orch_log[i].script # "master_cleanup.py" => orch_log[i].args = <<>>
          /\ i < Len(orch_log) => orch_log[i].code = 0
    /\ (orch_log # <<>> /\ orch_log[Len(orch_log)].code # 0) => orch_pc = "stopped"
    /\ orch_pc = "done" => (Len(orch_log) = 5 /\ \A i \in DOMAIN orch_log : orch_log[i].code = 0)

\* the cleanup deleted with --yes, the manufacturer script exited with 0, the rack
\* script with an error: main stopped with three scripts started
C35_Witness ==
    /\ orch_pc = "stopped"
    /\ Len(orch_log) = 3
    /\ orch_log[3].script = "netbox_rack.py" /\ orch_log[3].code = 1
    /\ clean_run.removed_dirs > 0

\* C38 as stated: in the menus of DeviceTypeTracker and ModuleTypeTracker print_summary
\* completes without raising in every reachable state, the state right after a reset
\* confirmed with 'yes' included (empty ledger, total_files = 0); and reset_progress
\* answered with anything other than 'yes' leaves the ledger and its file unchanged.
C38_MenuSafety ==
    /\ menu_last.choice = "1" => ~menu_last.raised
    /\ (menu_last.choice = "4" /\ menu_last.response # <<"y", "e", "s">>) =>
          (menu_data = menu_last.ld /\ menu_disk = menu_last.dk)

====
